---- MODULE Spec2Model ----
(***************************************************************************)
(* Motion controller of the InsideRide trainer firmware                    *)
(* (src/stepper_control.cpp) with the web handlers that drive it           *)
(* (src/web_server.cpp).                                                   *)
(*                                                                         *)
(* Units.  Times are the values of micros() (nowUs) and millis()           *)
(* (nowUs \div 1000).  The float step rates of the source are kept as      *)
(* fixed-point numbers with three decimals: a rate of r steps/s is the     *)
(* integer r * FP.  With the acceleration of 6000 steps/s^2 the ramp gains *)
(* exactly 6 thousandths of a step/s per microsecond, so ramp arithmetic   *)
(* is exact.  The clock never wraps inside the explored horizon, so the    *)
(* unsigned differences now - then of the source are plain differences.    *)
(***************************************************************************)
EXTENDS Integers, Sequences, FiniteSets, TLC

\* ---------------------------------------------------------------- bounds
\* micros() when the main loop is entered for the first time
BootUs == 2000
\* number of /enable requests served in one run
MaxWebReqs == 1
\* duration of one short and one long pass of the main loop, and how many
\* short ones one run takes
TickLoopUs == 1000
TickStallUs == 750000
MaxLoopTicks == 1
\* no pass of the main loop that takes time starts after this instant
MaxTimeUs == 1500000
\* the same for the passes that follow a stepperHome call
MaxHomedTimeUs == 4500000
\* stepperHome is called in the first pass of the main loop, if at all
MaxHomeStartUs == BootUs
\* true carriage positions at boot (steps from the trip point of the switch)
InitCarriage == {0}
\* pos arguments of GET /goto
GotoArgs == {-5, 6, 7, 1200}

\* fixed-point scale of the step rates (thousandths of a step/s)
FP == 1000

\* ------------------------------------------------------ program constants
LOGICAL_MIN == 0
LOGICAL_MAX == 1000
PHYS_MIN_STEPS == 0
PHYS_MAX_STEPS == 6960
DEFAULT_STEP_SPEED_SPS == 2500
HOMING_SPEED_SPS == 800
jogSpeedSps == HOMING_SPEED_SPS
rampStartSps == 900
rampAccelSps2 == 6000
slowZoneSteps == 200
slowZoneSps == 1000
STEP_ON_DEADBAND_LOG == 12
STEP_OFF_DEADBAND_LOG == 6
STEP_IDLE_OFF_MS == 1500
LIMIT_DEBOUNCE_MS == 8
HOME_SETTLE_ITERS == 30
HOME_SETTLE_DELAY_MS == 2
HOME_BACKOFF_TIMEOUT_MS == 2000
HOME_SEEK_TIMEOUT_MS == 10000
HOME_FINAL_BACKOFF_STEPS == 100
PULSE_HIGH_US == 2
HOME_LOOP_DELAY_MS == 1

\* ------------------------------------------------------------- variables
VARIABLES
  \* globals of stepper_control.cpp
  logStepPos, logStepTarget, physStepPos, physStepTarget,
  gIsHoming, gRehomeRequested,
  stepSpeedSps, stepIntervalUs, lastStepUs,
  gLastDir, gDirJustChanged,
  runSpeedSps, rampLastUs, rampCurSps,
  gStepEn, gSettledSinceMs,
  gLimitStable, gLimitRawLast, gLimitLastChangeMs,
  \* output pin DIR_PIN (TRUE = HIGH = away from the switch)
  dirPin,
  \* position of stepperHome: "loop" when the main loop runs, else the phase
  pc, home_i, home_t0,
  \* environment: clock, true carriage position relative to the trip point
  \* of the limit switch (in steps), wiring state of the switch, served
  \* web requests, short passes of the main loop so far
  nowUs, carriage, switchFault, webReqs, loopTicks,
  \* how often the 32-bit counter behind micros() has wrapped at the origin of
  \* nowUs: micros() reads nowUs modulo 2^32, negative values of nowUs being
  \* the instants before that wrap
  microsWraps,
  \* observation of the STEP/DIR outputs of the current or last stepperHome
  \* call: directions of its pulses, equal neighbours merged
  homePulses,
  \* observation of the calls of stepperUpdate: millis() of the first call of
  \* the current unbroken series of calls that found the motor enabled, no
  \* homing or rehome pending and the error within the off deadband; -1
  \* when the last call was not such a call or the motor was switched off
  \* since
  heldSinceMs,
  \* observation of the calls of stepperUpdate: one of them has issued a step
  \* pulse since stepperEnable(true) was last called
  pulsedSinceEnable,
  \* target resolution: control mode, its commands, the speed the sensors
  \* report (mph), and the manual hold of the web interface
  gMode, ergTargetWatts, simGradePercent, currentSpeedMph,
  gManualHoldActive, gManualHoldTarget,
  \* a call of one of the pure functions: its name and arguments, and its
  \* result once it has returned (<<>> before)
  fnCall, fnOut,
  \* Hall sensor: statics of sensors.cpp written by hallISR (32-bit values as
  \* two 16-bit limbs <<high, low>>; the edge counter as a number)
  gLastHallUs, gHallIntervalUs, gHallEdges, gLastAcceptedHallUs,
  \* microseconds since boot at full width (limbs, the high one unbounded),
  \* and the number of times the model let time pass
  hallClock, hallTicks,
  \* readRPM: its position, its locals dt and last, and the value it returned
  rdPc, rdDt, rdLast, rawRpm,
  \* observation of the Hall sensor: time since boot of the last accepted
  \* edge (<<>> before the first), value of gHallEdges when readRPM read dt
  \* and when it read last, time since boot of the edge that had written the
  \* last it read, time since boot when it returned (<<>> before)
  hallAcceptedAt, rdDtEdge, rdLastEdge, rdAcceptedAt, rdAt,
  \* calibration data: coefficients of the idle curve, the three tables the
  \* web interface edits and their axes (sensors.h), the key-value store
  \* behind Preferences, whether calibrationInit has run, and the number of
  \* cells set since
  gIdleCurveA, gIdleCurveB, gIdleCurveC, gIdleCurveD,
  gPowerTable, gErgTable, gSimTable,
  gPowerSpeedAxis, gPowerPosAxis, gErgSpeedAxis, gErgPowerAxis,
  gSimSpeedAxis, gSimGradeAxis,
  prefs, calPc, calEdits,
  \* RPM filter: statics of sensors.cpp written by filterRPM (the float as
  \* a number of units in the last place), millis(), the raw value of the
  \* last call (-1 before the first) and the number of calls
  gRpmFiltered, gLastRpmFilterMs, filterNowMs, filterRaw, filterCalls,
  \* how often the limit switch changed its level while stepperHome ran, and
  \* the static gLastLimitTripMs of stepper_control.cpp
  switchFlips, gLastLimitTripMs,
  \* whether a stepperUpdate since the settle timer was started has seen the
  \* error outside the off deadband
  settleSeenOut,
  \* the error seen by the last stepperUpdate that switched the disabled
  \* motor on by its own decision (-1 before the first)
  wokeErr

stepperVars == <<logStepPos, logStepTarget, physStepPos, physStepTarget,
                 gIsHoming, gRehomeRequested,
                 stepSpeedSps, stepIntervalUs, lastStepUs,
                 gLastDir, gDirJustChanged,
                 runSpeedSps, rampLastUs, rampCurSps,
                 gStepEn, gSettledSinceMs,
                 gLimitStable, gLimitRawLast, gLimitLastChangeMs,
                 dirPin, carriage>>

envVars == <<switchFault, loopTicks, microsWraps>>

obsVars == <<homePulses, heldSinceMs, pulsedSinceEnable>>

holdVars == <<gMode, ergTargetWatts, simGradePercent, currentSpeedMph,
              gManualHoldActive, gManualHoldTarget>>

fnVars == <<fnCall, fnOut>>

hallVars == <<gLastHallUs, gHallIntervalUs, gHallEdges, gLastAcceptedHallUs,
              hallClock, hallTicks, rdPc, rdDt, rdLast, rawRpm,
              hallAcceptedAt, rdDtEdge, rdLastEdge, rdAcceptedAt, rdAt>>

calVars == <<gIdleCurveA, gIdleCurveB, gIdleCurveC, gIdleCurveD,
             gPowerTable, gErgTable, gSimTable,
             gPowerSpeedAxis, gPowerPosAxis, gErgSpeedAxis, gErgPowerAxis,
             gSimSpeedAxis, gSimGradeAxis, prefs, calPc, calEdits>>

filterVars == <<gRpmFiltered, gLastRpmFilterMs, filterNowMs, filterRaw,
                filterCalls>>

tripVars == <<switchFlips, gLastLimitTripMs>>

settleVars == <<settleSeenOut, wokeErr>>

moreVars == <<calVars, filterVars, tripVars, settleVars>>

\* the variables the motion controller and stepperHome never write
auxVars == <<holdVars, fnVars, hallVars, moreVars>>

vars == <<stepperVars, pc, home_i, home_t0, nowUs, envVars, webReqs, obsVars,
          auxVars>>

\* --------------------------------------------------------------- helpers
Min(a, b) == IF a < b THEN a ELSE b

iabs32(v) == IF v < 0 THEN -v ELSE v

constrain(v, lo, hi) == IF v < lo THEN lo ELSE IF v > hi THEN hi ELSE v

\* millis() at the instant us of nowUs: the milliseconds of the 2^32
\* microseconds of every wrap, 4294967 and 296/1000, are added
Millis(us) == microsWraps * 4294967 + (us + microsWraps * 296) \div 1000

\* (uint32_t)(1000000.0f / sps + 0.5f) with sps clamped to [50, 5000]
spsToIntervalUs(sps) ==
  LET c == constrain(sps, 50 * FP, 5000 * FP)
  IN  (2 * 1000000 * FP + c) \div (2 * c)

\* line 336, rounding to the nearest step instead of truncating
logicalToSteps_Nearest(logical) ==
  (2 * constrain(logical, LOGICAL_MIN, LOGICAL_MAX) * PHYS_MAX_STEPS + LOGICAL_MAX)
    \div (2 * LOGICAL_MAX)

logicalToSteps(logical) ==
  (constrain(logical, LOGICAL_MIN, LOGICAL_MAX) * PHYS_MAX_STEPS) \div LOGICAL_MAX

\* line 341, with the scale factors exchanged
stepsToLogical_Swapped(steps) ==
  (constrain(steps, PHYS_MIN_STEPS, PHYS_MAX_STEPS) * PHYS_MAX_STEPS) \div LOGICAL_MAX

stepsToLogical(steps) ==
  (constrain(steps, PHYS_MIN_STEPS, PHYS_MAX_STEPS) * LOGICAL_MAX) \div PHYS_MAX_STEPS

\* no clamp
clampLogical_None(v) == v

clampLogical(v) ==
  IF v < LOGICAL_MIN THEN LOGICAL_MIN ELSE IF v > LOGICAL_MAX THEN LOGICAL_MAX ELSE v

\* digitalRead(LIMIT_PIN): INPUT_PULLUP, switch to GND, 0 = pressed
LimitRaw(car, fault) ==
  CASE fault = "shorted" -> 0
    [] fault = "open"    -> 1
    [] OTHER             -> IF car <= 0 THEN 0 ELSE 1

\* ------------------------------------------- the stepper state as a record
Load ==
  [ logStepPos |-> logStepPos, logStepTarget |-> logStepTarget,
    physStepPos |-> physStepPos, physStepTarget |-> physStepTarget,
    gIsHoming |-> gIsHoming, gRehomeRequested |-> gRehomeRequested,
    stepSpeedSps |-> stepSpeedSps, stepIntervalUs |-> stepIntervalUs,
    lastStepUs |-> lastStepUs, gLastDir |-> gLastDir,
    gDirJustChanged |-> gDirJustChanged, runSpeedSps |-> runSpeedSps,
    rampLastUs |-> rampLastUs, rampCurSps |-> rampCurSps,
    gStepEn |-> gStepEn, gSettledSinceMs |-> gSettledSinceMs,
    gLimitStable |-> gLimitStable, gLimitRawLast |-> gLimitRawLast,
    gLimitLastChangeMs |-> gLimitLastChangeMs,
    dirPin |-> dirPin, carriage |-> carriage ]

Store(s) ==
  /\ logStepPos' = s.logStepPos
  /\ logStepTarget' = s.logStepTarget
  /\ physStepPos' = s.physStepPos
  /\ physStepTarget' = s.physStepTarget
  /\ gIsHoming' = s.gIsHoming
  /\ gRehomeRequested' = s.gRehomeRequested
  /\ stepSpeedSps' = s.stepSpeedSps
  /\ stepIntervalUs' = s.stepIntervalUs
  /\ lastStepUs' = s.lastStepUs
  /\ gLastDir' = s.gLastDir
  /\ gDirJustChanged' = s.gDirJustChanged
  /\ runSpeedSps' = s.runSpeedSps
  /\ rampLastUs' = s.rampLastUs
  /\ rampCurSps' = s.rampCurSps
  /\ gStepEn' = s.gStepEn
  /\ gSettledSinceMs' = s.gSettledSinceMs
  /\ gLimitStable' = s.gLimitStable
  /\ gLimitRawLast' = s.gLimitRawLast
  /\ gLimitLastChangeMs' = s.gLimitLastChangeMs
  /\ dirPin' = s.dirPin
  /\ carriage' = s.carriage

\* ------------------------------------------------- functions of the source
\* lines 76-87 without the wait: a level seen twice in a row is taken at once
updateLimitDebounce_NoWait(s, fault, now) ==
  LET raw == LimitRaw(s.carriage, fault)
  IN  IF raw # s.gLimitRawLast
      THEN [s EXCEPT !.gLimitRawLast = raw, !.gLimitLastChangeMs = Millis(now)]
      ELSE [s EXCEPT !.gLimitStable = raw]

\* lines 76-87
updateLimitDebounce(s, fault, now) ==
  LET raw == LimitRaw(s.carriage, fault)
      ms  == Millis(now)
  IN  IF raw # s.gLimitRawLast
      THEN [s EXCEPT !.gLimitRawLast = raw, !.gLimitLastChangeMs = ms]
      ELSE IF ms - s.gLimitLastChangeMs >= LIMIT_DEBOUNCE_MS
           THEN [s EXCEPT !.gLimitStable = raw]
           ELSE s

limitPressed(s) == s.gLimitStable = 0

\* one pulse on STEP_PIN moves the carriage one step in the direction of
\* DIR_PIN while the driver is enabled
Pulse(s) ==
  IF s.gStepEn
  THEN [s EXCEPT !.carriage = IF s.dirPin THEN @ + 1 ELSE @ - 1]
  ELSE s

stepperSetDir(s, forward) == [s EXCEPT !.dirPin = forward]

stepperSetSpeed(s, sps) ==
  LET c == constrain(sps, 50 * FP, 4000 * FP)
  IN  [s EXCEPT !.runSpeedSps = c, !.stepSpeedSps = c,
                !.stepIntervalUs = spsToIntervalUs(c)]

stepperSetJogSpeed(s) == stepperSetSpeed(s, jogSpeedSps * FP)

stepperSetRunSpeed(s) == stepperSetSpeed(s, s.runSpeedSps)

stepperEnable(s, en, now) ==
  IF en
  THEN [s EXCEPT !.gStepEn = TRUE, !.gLastDir = 0,
                 !.rampCurSps = Min(rampStartSps * FP, s.runSpeedSps),
                 !.rampLastUs = now, !.lastStepUs = 0]
  ELSE [s EXCEPT !.gStepEn = FALSE]

\* line 127, with the rehome request left out
ForcedOn_HomingOnly(s) == s.gIsHoming

\* line 127: homing or a rehome pending
ForcedOn(s) == s.gIsHoming \/ s.gRehomeRequested

\* line 147, with the settle timer restarted by every call
SettleStart_Restart(s, ms) == ms

\* line 147: the settle timer starts when it is not running
SettleStart(s, ms) == IF s.gSettledSinceMs = 0 THEN ms ELSE s.gSettledSinceMs

\* line 135 with the comparison made strict
WakeDue_Above(err) == err > STEP_ON_DEADBAND_LOG

\* line 135: the error that switches the disabled motor on
WakeDue(err) == err >= STEP_ON_DEADBAND_LOG

updateStepperEnableFromError(s, now) ==
  IF ForcedOn(s)
  THEN [(IF ~s.gStepEn THEN stepperEnable(s, TRUE, now) ELSE s)
          EXCEPT !.gSettledSinceMs = 0]
  ELSE
    LET ms  == Millis(now)
        err == iabs32(s.logStepTarget - s.logStepPos)
    IN  IF ~s.gStepEn
        THEN IF WakeDue(err)
             THEN [stepperEnable(s, TRUE, now) EXCEPT !.gSettledSinceMs = 0]
             ELSE s
        ELSE IF err <= STEP_OFF_DEADBAND_LOG
             THEN LET t == SettleStart(s, ms)
                  IN  IF ms - t >= STEP_IDLE_OFF_MS
                      THEN [stepperEnable(s, FALSE, now) EXCEPT !.gSettledSinceMs = 0]
                      ELSE [s EXCEPT !.gSettledSinceMs = t]
             ELSE [s EXCEPT !.gSettledSinceMs = 0]

\* lines 200-209: direction and soft ramp reset on reversal
DirectionCheck(s, curDir, now) ==
  LET r == IF curDir # s.gLastDir /\ s.gLastDir # 0
           THEN [s EXCEPT !.gDirJustChanged = TRUE,
                          !.rampCurSps = rampStartSps * FP,
                          !.rampLastUs = now]
           ELSE s
  IN  stepperSetDir([r EXCEPT !.gLastDir = curDir], curDir > 0)

\* lines 214-221: target step rate with the slow zone
TargetSps(s, absErr) ==
  IF absErr <= slowZoneSteps THEN slowZoneSps * FP ELSE s.runSpeedSps

\* lines 223-236: soft ramp
RampUpdate(s, targetSps, now) ==
  IF s.gDirJustChanged \/ s.rampCurSps < targetSps
  THEN LET dt  == now - s.rampLastUs
           inc == s.rampCurSps + ((rampAccelSps2 * FP) \div 1000000) * dt
           hit == inc >= targetSps
           cur == IF hit THEN targetSps ELSE inc
       IN  [s EXCEPT !.rampLastUs = now, !.rampCurSps = cur,
                     !.gDirJustChanged = IF hit THEN FALSE ELSE @,
                     !.stepIntervalUs = spsToIntervalUs(cur)]
  ELSE s

\* lines 238-259 with the step count itself taken as the logical position
StepIfDue_RawSteps(s, curDir, now) ==
  IF s.lastStepUs = 0 \/ now - s.lastStepUs >= s.stepIntervalUs
  THEN LET p == IF curDir > 0 THEN s.physStepPos + 1 ELSE s.physStepPos - 1
           m == Pulse(s)
       IN  [m EXCEPT !.lastStepUs = now,
                     !.logStepPos = constrain(p, LOGICAL_MIN, LOGICAL_MAX),
                     !.physStepPos = constrain(p, PHYS_MIN_STEPS, PHYS_MAX_STEPS)]
  ELSE s

\* lines 238-259: one step if the interval has elapsed
StepIfDue(s, curDir, now) ==
  IF s.lastStepUs = 0 \/ now - s.lastStepUs >= s.stepIntervalUs
  THEN LET p == IF curDir > 0 THEN s.physStepPos + 1 ELSE s.physStepPos - 1
           m == Pulse(s)
       IN  [m EXCEPT !.lastStepUs = now,
                     !.logStepPos = stepsToLogical(p),
                     !.physStepPos = constrain(p, PHYS_MIN_STEPS, PHYS_MAX_STEPS)]
  ELSE s

\* line 201 with the two directions exchanged
ErrDir_Away(err) == IF err > 0 THEN -1 ELSE 1

\* line 201: the direction of the error
ErrDir(err) == IF err > 0 THEN 1 ELSE -1

\* lines 196-259 without the return of line 194
MotionProfile_Disabled(s, now) ==
  LET err == s.logStepTarget - s.logStepPos
  IN  IF err = 0 THEN s
      ELSE LET curDir == ErrDir(err)
               d == DirectionCheck(s, curDir, now)
               r == RampUpdate(d, TargetSps(d, iabs32(err)), now)
           IN  StepIfDue(r, curDir, now)

\* lines 194-259 of stepperUpdate
MotionProfile(s, now) ==
  IF ~s.gStepEn THEN s
  ELSE LET err == s.logStepTarget - s.logStepPos
       IN  IF err = 0 THEN s
           ELSE LET curDir == ErrDir(err)
                    d == DirectionCheck(s, curDir, now)
                    r == RampUpdate(d, TargetSps(d, iabs32(err)), now)
                IN  StepIfDue(r, curDir, now)

\* lines 190-259 with the motion profile and the step ahead of the decision
stepperUpdate_ProfileFirst(s, fault, now) ==
  updateStepperEnableFromError(MotionProfile(updateLimitDebounce(s, fault, now), now), now)

\* lines 190-259: debounce, decision, motion profile and step
stepperUpdate(s, fault, now) ==
  MotionProfile(updateStepperEnableFromError(updateLimitDebounce(s, fault, now), now), now)

stepperSetTarget(s, logicalTarget) ==
  LET t == constrain(logicalTarget, LOGICAL_MIN, LOGICAL_MAX)
  IN  [s EXCEPT !.logStepTarget = t, !.physStepTarget = logicalToSteps(t)]

\* ----------------------------------------------------------------- Init
\* stepper_control.cpp after the static initialisers and stepperInit()
BootState ==
  /\ logStepPos = 0 /\ logStepTarget = 0
  /\ physStepPos = 0 /\ physStepTarget = 0
  /\ gIsHoming = FALSE /\ gRehomeRequested = FALSE
  /\ stepSpeedSps = DEFAULT_STEP_SPEED_SPS * FP
  /\ stepIntervalUs = spsToIntervalUs(DEFAULT_STEP_SPEED_SPS * FP)
  /\ lastStepUs = 0
  /\ gLastDir = 0 /\ gDirJustChanged = FALSE
  /\ runSpeedSps = DEFAULT_STEP_SPEED_SPS * FP
  /\ rampLastUs = 0 /\ rampCurSps = rampStartSps * FP
  /\ gStepEn = FALSE /\ gSettledSinceMs = 0
  /\ gLimitStable = 1 /\ gLimitRawLast = 1 /\ gLimitLastChangeMs = 0
  /\ dirPin = FALSE
  /\ pc = "loop" /\ home_i = 0 /\ home_t0 = 0
  /\ nowUs = BootUs
  /\ \/ carriage \in InitCarriage /\ switchFault = "none"
     \/ carriage = 0 /\ switchFault = "shorted"
     \/ carriage = 0 /\ switchFault = "open"
  /\ webReqs = 0 /\ loopTicks = 0 /\ microsWraps = 0
  /\ homePulses = <<>>
  /\ heldSinceMs = -1 /\ pulsedSinceEnable = FALSE

\* target resolution after boot: stepper_control.cpp lines 8, 15, 16 and
\* sensors.cpp line 11; no ERG or SIM command has arrived
HoldInit ==
  /\ gMode = "IDLE" /\ ergTargetWatts = 0 /\ simGradePercent = 0
  /\ currentSpeedMph = 0
  /\ gManualHoldActive = FALSE /\ gManualHoldTarget = 0

\* no call of a pure function is under observation
FnIdle == fnCall = <<>> /\ fnOut = <<>>

\* 32-bit values and times as limbs <<high, low>> of 16 bits
Limb == 65536
Wide(n) == <<n \div Limb, n % Limb>>
Norm(hi, lo) == <<hi + lo \div Limb, lo % Limb>>
WAdd(a, b) == Norm(a[1] + b[1], a[2] + b[2])
\* a - b for a >= b
WSub(a, b) ==
  IF a[2] >= b[2] THEN <<a[1] - b[1], a[2] - b[2]>>
  ELSE <<a[1] - b[1] - 1, a[2] + Limb - b[2]>>
WMul(a, k) == Norm(a[1] * k, a[2] * k)
WLess(a, b) == a[1] < b[1] \/ (a[1] = b[1] /\ a[2] < b[2])
\* conversion to uint32_t, and the subtraction of two uint32_t values
U32(a) == <<a[1] % Limb, a[2]>>
U32Sub(a, b) == U32(WSub(WAdd(a, <<Limb, 0>>), b))

\* attachInterrupt in sensorsInit: time since boot
HallAttachUs == Wide(5000)

\* sensors.cpp lines 9, 15-18, and no readRPM call so far
HallInit ==
  /\ gLastHallUs = Wide(0) /\ gHallIntervalUs = Wide(0)
  /\ gHallEdges = 0 /\ gLastAcceptedHallUs = Wide(0)
  /\ hallClock = HallAttachUs /\ hallTicks = 0
  /\ rdPc = "idle" /\ rdDt = Wide(0) /\ rdLast = Wide(0)
  /\ rawRpm = <<0, Wide(1)>>
  /\ hallAcceptedAt = <<>> /\ rdDtEdge = 0 /\ rdLastEdge = 0
  /\ rdAcceptedAt = <<>> /\ rdAt = <<>>

\* calibration.h lines 32-41
POWER_TABLE_ROWS == 7
POWER_TABLE_COLS == 5
ERG_TABLE_ROWS == 7
ERG_TABLE_COLS == 9
SIM_TABLE_ROWS == 8
SIM_TABLE_COLS == 7

\* calibration.cpp lines 198-227
DEFAULT_POWER_TABLE ==
  << <<0, 0, 0, 0, 0>>,
     <<52, 68, 80, 102, 124>>,
     <<117, 143, 217, 280, 343>>,
     <<188, 246, 383, 490, 597>>,
     <<265, 380, 580, 732, 884>>,
     <<349, 544, 806, 1006, 1206>>,
     <<861, 1806, 2388, 2856, 3324>> >>

DEFAULT_ERG_TABLE ==
  << <<0, 0, 0, 0, 0, 0, 0, 0, 0>>,
     <<0, 739, 1000, 1000, 1000, 1000, 1000, 1000, 1000>>,
     <<0, 0, 212, 442, 651, 841, 1000, 1000, 1000>>,
     <<0, 0, 0, 70, 198, 322, 560, 996, 1000>>,
     <<0, 0, 0, 0, 0, 79, 238, 552, 1000>>,
     <<0, 0, 0, 0, 0, 0, 67, 285, 745>>,
     <<0, 0, 0, 0, 0, 0, 0, 0, 26>> >>

DEFAULT_SIM_TABLE ==
  << <<0, 167, 333, 500, 667, 833, 1000>>,
     <<0, 167, 333, 500, 667, 833, 1000>>,
     <<0, 167, 333, 500, 667, 833, 1000>>,
     <<0, 167, 333, 500, 667, 833, 1000>>,
     <<0, 167, 333, 500, 667, 833, 1000>>,
     <<167, 333, 500, 677, 834, 1000, 1000>>,
     <<333, 500, 677, 834, 1000, 1000, 1000>>,
     <<500, 500, 677, 834, 1000, 1000, 1000>> >>

\* the coefficients a, b, c, d of the idle curve at boot; the values of
\* IDLE_CURVE_DEFAULT_A .. _D are not part of the sources
IdleCurveBoot == <<0, 20, 0, 0>>

\* a key of the store without a value, and the store of a device that never
\* saved a table: the namespace exists, no blob in it
NoBlob == [len |-> 0, data |-> <<>>]
EmptyPrefs ==
  [ns |-> TRUE, powerTbl |-> NoBlob, ergTbl |-> NoBlob, simTbl |-> NoBlob]

\* the axes of the three tables and the tables with their default values
\* (the arrays declared in sensors.h lines 41-53)
TablesDefault ==
  /\ gPowerTable = DEFAULT_POWER_TABLE
  /\ gErgTable = DEFAULT_ERG_TABLE
  /\ gSimTable = DEFAULT_SIM_TABLE
  /\ gPowerSpeedAxis = <<0, 5, 10, 15, 20, 25, 50>>
  /\ gPowerPosAxis = <<0, 250, 500, 750, 1000>>
  /\ gErgSpeedAxis = <<0, 5, 10, 15, 20, 25, 50>>
  /\ gErgPowerAxis = <<0, 100, 150, 200, 250, 300, 400, 600, 1000>>
  /\ gSimSpeedAxis = <<0, 5, 10, 15, 20, 25, 30, 50>>
  /\ gSimGradeAxis = <<-4, 0, 2, 4, 6, 8, 10>>

IdleCurveIs(c) ==
  /\ gIdleCurveA = c[1] /\ gIdleCurveB = c[2]
  /\ gIdleCurveC = c[3] /\ gIdleCurveD = c[4]

\* calibration data after calibrationInit on a device that never saved
CalInit ==
  /\ TablesDefault
  /\ IdleCurveIs(IdleCurveBoot)
  /\ prefs = EmptyPrefs
  /\ calPc = "run" /\ calEdits = 0

\* sensors.cpp lines 25-27, before the first filterRPM call
FilterInit ==
  /\ gRpmFiltered = 0 /\ gLastRpmFilterMs = 0
  /\ filterNowMs = BootUs \div 1000
  /\ filterRaw = -1 /\ filterCalls = 0

\* stepper_control.cpp line 61, and a switch that has not changed its level
TripInit == switchFlips = 0 /\ gLastLimitTripMs = 0

SettleInit == settleSeenOut = FALSE /\ wokeErr = -1

MoreInit == CalInit /\ FilterInit /\ TripInit /\ SettleInit

Init == BootState /\ HoldInit /\ FnIdle /\ HallInit /\ MoreInit

\* ------------------------------------------------------------ stepperHome
\* lines 272-275
HomeBegin(s, now) ==
  stepperSetJogSpeed(stepperEnable([s EXCEPT !.gIsHoming = TRUE], TRUE, now))

\* line 288, with a back-off loop that never runs
BackoffCond_Never(s, t0, now) == FALSE

\* loop condition of the back-off loop, line 288
BackoffCond(s, t0, now) ==
  limitPressed(s) /\ Millis(now) - t0 < HOME_BACKOFF_TIMEOUT_MS

\* line 299, with a seek loop that only the switch ends
SeekCond_NoTimeout(s, t0, now) == ~limitPressed(s)

\* loop condition of the seek loop, line 299
SeekCond(s, t0, now) ==
  ~limitPressed(s) /\ Millis(now) - t0 < HOME_SEEK_TIMEOUT_MS

\* body of both loops: stepperPulseOnce(); updateLimitDebounce(); the
\* trailing delay(1) is added to the clock by the action
HomeLoopBody(s, fault, now) ==
  updateLimitDebounce(Pulse(s), fault, now + PULSE_HIGH_US + s.stepIntervalUs)

\* lines 305-309, with the driver switched off on failure
HomeFail_MotorOff(s) == [s EXCEPT !.gIsHoming = FALSE, !.gStepEn = FALSE]

\* lines 305-309
HomeFail(s) == [s EXCEPT !.gIsHoming = FALSE]

\* lines 311-316: the final back-off, HOME_FINAL_BACKOFF_STEPS pulses away
HomeFinalBackoff(s) ==
  LET d == stepperSetDir(s, TRUE)
  IN  IF d.gStepEn
      THEN [d EXCEPT !.carriage = @ + HOME_FINAL_BACKOFF_STEPS]
      ELSE d

\* lines 318-326, with the target left as it was
HomeZero_KeepTarget(s) ==
  LET z == [s EXCEPT !.physStepPos = PHYS_MIN_STEPS,
                     !.logStepPos = stepsToLogical(PHYS_MIN_STEPS)]
  IN  [stepperSetRunSpeed(z) EXCEPT !.gIsHoming = FALSE,
                                    !.gRehomeRequested = FALSE]

\* lines 318-326
HomeZero(s) ==
  LET z == [s EXCEPT !.physStepPos = PHYS_MIN_STEPS,
                     !.logStepPos = stepsToLogical(PHYS_MIN_STEPS),
                     !.logStepTarget = stepsToLogical(PHYS_MIN_STEPS),
                     !.physStepTarget = PHYS_MIN_STEPS]
  IN  [stepperSetRunSpeed(z) EXCEPT !.gIsHoming = FALSE,
                                    !.gRehomeRequested = FALSE]

LogPulse(log, dir) ==
  IF Len(log) > 0 /\ log[Len(log)] = dir THEN log ELSE Append(log, dir)

\* --------------------------------------------------------------- actions
\* time passes between two iterations of the main loop
TickLoop ==
  /\ pc = "loop"
  /\ loopTicks < MaxLoopTicks
  /\ nowUs <= MaxTimeUs
  /\ loopTicks' = loopTicks + 1
  /\ nowUs' = nowUs + TickLoopUs
  /\ UNCHANGED <<stepperVars, pc, home_i, home_t0, switchFault, microsWraps,
                 webReqs, obsVars>>
  /\ UNCHANGED auxVars

TickStall ==
  /\ pc = "loop"
  /\ nowUs <= MaxTimeUs
  /\ nowUs' = nowUs + TickStallUs
  /\ UNCHANGED <<stepperVars, pc, home_i, home_t0, switchFault, loopTicks,
                 microsWraps, webReqs, obsVars>>
  /\ UNCHANGED auxVars

\* a long pass of the main loop after stepperHome has returned
TickHomed ==
  /\ pc = "loop"
  /\ homePulses # <<>>
  /\ nowUs <= MaxHomedTimeUs
  /\ nowUs' = nowUs + TickStallUs
  /\ UNCHANGED <<stepperVars, pc, home_i, home_t0, envVars, webReqs, obsVars>>
  /\ UNCHANGED auxVars

\* the call of stepperUpdate finds the motor enabled, nothing pending and
\* the error within the off deadband
Held ==
  /\ gStepEn /\ ~gIsHoming /\ ~gRehomeRequested
  /\ iabs32(logStepTarget - logStepPos) <= STEP_OFF_DEADBAND_LOG

\* start of the series of such calls that the call made now belongs to
HeldSince ==
  IF ~Held THEN -1
  ELSE IF heldSinceMs = -1 THEN Millis(nowUs) ELSE heldSinceMs

StepperUpdate ==
  /\ pc = "loop"
  /\ Store(stepperUpdate(Load, switchFault, nowUs))
  /\ heldSinceMs' = IF gStepEn' THEN HeldSince ELSE -1
  /\ pulsedSinceEnable' =
       IF physStepPos' # physStepPos THEN TRUE
       ELSE IF ~gStepEn /\ gStepEn' THEN FALSE
       ELSE pulsedSinceEnable
  /\ UNCHANGED <<pc, home_i, home_t0, nowUs, envVars, webReqs, homePulses>>
  /\ UNCHANGED auxVars

\* GET /goto?pos=..
HandleGoto(pos) ==
  /\ pc = "loop"
  /\ Store(stepperSetTarget(Load, clampLogical(pos)))
  /\ UNCHANGED <<pc, home_i, home_t0, nowUs, envVars, webReqs, obsVars>>
  /\ UNCHANGED auxVars

\* GET /enable?on=..
HandleEnable(on) ==
  /\ pc = "loop"
  /\ webReqs < MaxWebReqs
  /\ webReqs' = webReqs + 1
  /\ Store(stepperEnable(Load, on, nowUs))
  /\ heldSinceMs' = IF on THEN heldSinceMs ELSE -1
  /\ pulsedSinceEnable' = IF on THEN FALSE ELSE pulsedSinceEnable
  /\ UNCHANGED <<pc, home_i, home_t0, nowUs, envVars, homePulses>>
  /\ UNCHANGED auxVars

\* stepperRequestRehome(reason): declared in stepper_control.h, its body is
\* not part of the sources; it raises the rehome request
StepperRequestRehome ==
  /\ pc = "loop"
  /\ ~gRehomeRequested
  /\ gRehomeRequested' = TRUE
  /\ UNCHANGED <<logStepPos, logStepTarget, physStepPos, physStepTarget,
                 gIsHoming, stepSpeedSps, stepIntervalUs, lastStepUs,
                 gLastDir, gDirJustChanged, runSpeedSps, rampLastUs,
                 rampCurSps, gStepEn, gSettledSinceMs, gLimitStable,
                 gLimitRawLast, gLimitLastChangeMs, dirPin, carriage,
                 pc, home_i, home_t0, nowUs, envVars, webReqs, obsVars>>
  /\ UNCHANGED auxVars

HomeStart ==
  /\ pc = "loop"
  /\ nowUs <= MaxHomeStartUs /\ webReqs = 0
  /\ Store(HomeBegin(Load, nowUs))
  /\ pc' = "settle" /\ home_i' = 0
  /\ homePulses' = <<>> /\ heldSinceMs' = -1
  /\ pulsedSinceEnable' = FALSE
  /\ UNCHANGED <<home_t0, nowUs, envVars, webReqs>>
  /\ UNCHANGED auxVars

\* lines 278-281, one iteration
HomeSettle ==
  /\ pc = "settle" /\ home_i < HOME_SETTLE_ITERS
  /\ Store(updateLimitDebounce(Load, switchFault, nowUs))
  /\ nowUs' = nowUs + HOME_SETTLE_DELAY_MS * 1000
  /\ home_i' = home_i + 1
  /\ UNCHANGED <<pc, home_t0, envVars, webReqs, obsVars>>
  /\ UNCHANGED auxVars

\* lines 284-287: switch already pressed
HomeEnterBackoff ==
  /\ pc = "settle" /\ home_i = HOME_SETTLE_ITERS
  /\ limitPressed(Load)
  /\ Store(stepperSetDir(Load, TRUE))
  /\ home_t0' = Millis(nowUs) /\ pc' = "backoff"
  /\ UNCHANGED <<home_i, nowUs, envVars, webReqs, obsVars>>
  /\ UNCHANGED auxVars

\* lines 284, 296-298: switch not pressed, straight to the seek
HomeSkipBackoff ==
  /\ pc = "settle" /\ home_i = HOME_SETTLE_ITERS
  /\ ~limitPressed(Load)
  /\ Store(stepperSetDir(Load, FALSE))
  /\ home_t0' = Millis(nowUs) /\ pc' = "seek"
  /\ UNCHANGED <<home_i, nowUs, envVars, webReqs, obsVars>>
  /\ UNCHANGED auxVars

\* lines 288-292, one iteration
HomeBackoffPulse ==
  /\ pc = "backoff"
  /\ BackoffCond(Load, home_t0, nowUs)
  /\ Store(HomeLoopBody(Load, switchFault, nowUs))
  /\ nowUs' = nowUs + PULSE_HIGH_US + stepIntervalUs + HOME_LOOP_DELAY_MS * 1000
  /\ homePulses' = LogPulse(homePulses, "away")
  /\ UNCHANGED <<heldSinceMs, pulsedSinceEnable>>
  /\ UNCHANGED <<pc, home_i, home_t0, envVars, webReqs>>
  /\ UNCHANGED auxVars

\* lines 288, 296-298: the back-off loop ends
HomeBackoffExit ==
  /\ pc = "backoff"
  /\ ~BackoffCond(Load, home_t0, nowUs)
  /\ Store(stepperSetDir(Load, FALSE))
  /\ home_t0' = Millis(nowUs) /\ pc' = "seek"
  /\ UNCHANGED <<home_i, nowUs, envVars, webReqs, obsVars>>
  /\ UNCHANGED auxVars

\* lines 299-303, one iteration
HomeSeekPulse ==
  /\ pc = "seek"
  /\ SeekCond(Load, home_t0, nowUs)
  /\ Store(HomeLoopBody(Load, switchFault, nowUs))
  /\ nowUs' = nowUs + PULSE_HIGH_US + stepIntervalUs + HOME_LOOP_DELAY_MS * 1000
  /\ homePulses' = LogPulse(homePulses, "toward")
  /\ UNCHANGED <<heldSinceMs, pulsedSinceEnable>>
  /\ UNCHANGED <<pc, home_i, home_t0, envVars, webReqs>>
  /\ UNCHANGED auxVars

\* lines 305-309: the seek ended without the switch
HomeTimeout ==
  /\ pc = "seek"
  /\ ~SeekCond(Load, home_t0, nowUs)
  /\ ~limitPressed(Load)
  /\ Store(HomeFail(Load))
  /\ pc' = "loop"
  /\ UNCHANGED <<home_i, home_t0, nowUs, envVars, webReqs, obsVars>>
  /\ UNCHANGED auxVars

\* lines 311-330: switch found, back off, define zero
HomeComplete ==
  /\ pc = "seek"
  /\ ~SeekCond(Load, home_t0, nowUs)
  /\ limitPressed(Load)
  /\ Store(HomeZero(HomeFinalBackoff(Load)))
  /\ nowUs' = nowUs + HOME_FINAL_BACKOFF_STEPS * (PULSE_HIGH_US + stepIntervalUs)
  /\ homePulses' = LogPulse(homePulses, "away")
  /\ UNCHANGED <<heldSinceMs, pulsedSinceEnable>>
  /\ pc' = "loop"
  /\ UNCHANGED <<home_i, home_t0, envVars, webReqs>>
  /\ UNCHANGED auxVars

\* the control loop alone
Next ==
  \/ TickLoop
  \/ TickStall
  \/ StepperUpdate
  \/ \E pos \in GotoArgs : HandleGoto(pos)
  \/ \E on \in BOOLEAN : HandleEnable(on)
  \/ StepperRequestRehome

Spec == Init /\ [][Next]_vars


\* --------------------------------------------------- stepperHome, complete
\* the limit switch may change its level while stepperHome runs: at most
\* MaxSwitchFlips times, at the start and the end of the settle phase and
\* every FlipPeriodMs of a pulse loop
MaxSwitchFlips == 1
FlipPeriodMs == 2500
FlipWindowMs == 3

FlipInstant ==
  \/ pc = "settle" /\ home_i \in {0, HOME_SETTLE_ITERS}
  \/ /\ pc \in {"backoff", "seek"}
     /\ (Millis(nowUs) - home_t0) % FlipPeriodMs < FlipWindowMs

SwitchFlip(f) ==
  /\ pc # "loop"
  /\ FlipInstant
  /\ switchFlips < MaxSwitchFlips
  /\ f # switchFault
  /\ switchFault' = f
  /\ switchFlips' = switchFlips + 1
  /\ UNCHANGED <<stepperVars, pc, home_i, home_t0, nowUs, loopTicks,
                 microsWraps, webReqs, obsVars, holdVars, fnVars, hallVars,
                 calVars, filterVars, gLastLimitTripMs, settleVars>>

\* one step of stepperHome, lines 271-330
HomeStep ==
  \/ HomeSettle
  \/ HomeEnterBackoff
  \/ HomeSkipBackoff
  \/ HomeBackoffPulse
  \/ HomeBackoffExit
  \/ HomeSeekPulse
  \/ HomeTimeout
  \/ HomeComplete

NextHomeRun ==
  \/ HomeStart
  \/ HomeStep
  \/ \E f \in {"none", "shorted", "open"} : SwitchFlip(f)

\* stepperHome blocks the main loop: once called, the processor executes its
\* next statement
SpecHomeRun == Init /\ [][NextHomeRun]_vars /\ WF_vars(HomeStep)

\* ------------------------------------------------- rehoming after a trip
\* stepper_control.cpp line 62
REHOME_COOLDOWN_MS == 2000

\* The sources hold the timer (lines 61-62) and the request flag (line 14);
\* the main loop that notices a trip, raises the request and calls stepperHome
\* is not part of them.  It is modelled from the specification: a trip of the
\* limit switch outside homing records its time and raises the request, and
\* homing is called for a pending request once the cooldown has passed.
LimitTrip ==
  /\ pc = "loop"
  /\ limitPressed(Load) /\ ~gIsHoming /\ ~gRehomeRequested
  /\ gRehomeRequested' = TRUE
  /\ gLastLimitTripMs' = Millis(nowUs)
  /\ UNCHANGED <<logStepPos, logStepTarget, physStepPos, physStepTarget,
                 gIsHoming, stepSpeedSps, stepIntervalUs, lastStepUs,
                 gLastDir, gDirJustChanged, runSpeedSps, rampLastUs,
                 rampCurSps, gStepEn, gSettledSinceMs, gLimitStable,
                 gLimitRawLast, gLimitLastChangeMs, dirPin, carriage,
                 pc, home_i, home_t0, nowUs, envVars, webReqs, obsVars,
                 holdVars, fnVars, hallVars, calVars, filterVars, switchFlips,
                 settleVars>>

RehomeDue_NoCooldown(now) == gRehomeRequested

RehomeDue(now) ==
  gRehomeRequested /\ Millis(now) - gLastLimitTripMs >= REHOME_COOLDOWN_MS

RehomeStart ==
  /\ pc = "loop"
  /\ nowUs <= MaxHomedTimeUs + TickStallUs
  /\ RehomeDue(nowUs)
  /\ Store(HomeBegin(Load, nowUs))
  /\ pc' = "settle" /\ home_i' = 0
  /\ homePulses' = <<>> /\ heldSinceMs' = -1
  /\ pulsedSinceEnable' = FALSE
  /\ UNCHANGED <<home_t0, nowUs, envVars, webReqs>>
  /\ UNCHANGED auxVars

\* a long pass of the main loop
TickRehome ==
  /\ pc = "loop"
  /\ nowUs <= MaxHomedTimeUs
  /\ nowUs' = nowUs + TickStallUs
  /\ UNCHANGED <<stepperVars, pc, home_i, home_t0, envVars, webReqs, obsVars>>
  /\ UNCHANGED auxVars

NextRehome ==
  \/ TickRehome
  \/ StepperUpdate
  \/ LimitTrip
  \/ RehomeStart
  \/ HomeStep
  \/ \E f \in {"none", "shorted", "open"} : SwitchFlip(f)

SpecRehome == Init /\ [][NextRehome]_vars

\* ------------------------------------------------------ calibration tables
\* The lookups take and return doubles.  Arguments are kept in tenths of the
\* axis unit (mph, logical units, watts, percent), and a result is kept as
\* the exact fraction <<num, den>> of the bilinear formula; at the nodes of
\* the grid the weights of the source are exactly 0 and 1, so its double
\* arithmetic yields the same value.
Q == 10

\* sensors.cpp lines 36-53: speed grid, position grid, watts
X == <<0, 5, 10, 15, 20, 25, 50>>
Y == <<0, 250, 500, 750, 1000>>
Z == << <<0, 0, 0, 0, 0>>,
        <<52, 68, 80, 102, 124>>,
        <<117, 143, 217, 280, 343>>,
        <<188, 246, 383, 490, 597>>,
        <<265, 380, 580, 732, 884>>,
        <<349, 544, 806, 1006, 1206>>,
        <<861, 1806, 2388, 2856, 3324>> >>

\* sensors.cpp lines 184-201: speed grid, power grid, position
Xw == <<0, 5, 10, 15, 20, 25, 50>>
Yw == <<0, 100, 150, 200, 250, 300, 400, 600, 1000>>
Zw == << <<0, 0, 0, 0, 0, 0, 0, 0, 0>>,
         <<0, 739, 1000, 1000, 1000, 1000, 1000, 1000, 1000>>,
         <<0, 0, 212, 442, 651, 841, 1000, 1000, 1000>>,
         <<0, 0, 0, 70, 198, 322, 560, 996, 1000>>,
         <<0, 0, 0, 0, 0, 79, 238, 552, 1000>>,
         <<0, 0, 0, 0, 0, 0, 67, 285, 745>>,
         <<0, 0, 0, 0, 0, 0, 0, 0, 26>> >>

\* sensors.cpp lines 253-271: speed grid, grade grid, position
Xstep == <<0, 5, 10, 15, 20, 25, 30, 50>>
Ystep == <<-4, 0, 2, 4, 6, 8, 10>>
Zstep == << <<0, 167, 333, 500, 667, 833, 1000>>,
            <<0, 167, 333, 500, 667, 833, 1000>>,
            <<0, 167, 333, 500, 667, 833, 1000>>,
            <<0, 167, 333, 500, 667, 833, 1000>>,
            <<0, 167, 333, 500, 667, 833, 1000>>,
            <<167, 333, 500, 677, 834, 1000, 1000>>,
            <<333, 500, 677, 834, 1000, 1000, 1000>>,
            <<500, 500, 677, 834, 1000, 1000, 1000>> >>

\* the index loops: for (i = count - 2; i >= 0; --i) if (v >= A[i]) ...
\* (indices of the source; the tuples count from 1)
\* the index search always answering the first cell
FindIndex_First(A, v, i) == 0

RECURSIVE FindIndex(_, _, _)
FindIndex(A, v, i) ==
  IF i < 0 THEN 0
  ELSE IF v >= A[i + 1] * Q THEN i
  ELSE FindIndex(A, v, i - 1)

\* the interpolation with the weights of the two columns exchanged
Bilinear_SwappedWeights(A, B, T, x, y) ==
  LET xIndex == FindIndex(A, x, Len(A) - 2)
      yIndex == FindIndex(B, y, Len(B) - 2)
      x1 == A[xIndex + 1] * Q
      x2 == A[xIndex + 2] * Q
      y1 == B[yIndex + 1] * Q
      y2 == B[yIndex + 2] * Q
      fxy1 == (x - x1) * T[xIndex + 1][yIndex + 1]
                + (x2 - x) * T[xIndex + 2][yIndex + 1]
      fxy2 == (x - x1) * T[xIndex + 1][yIndex + 2]
                + (x2 - x) * T[xIndex + 2][yIndex + 2]
  IN  <<(y2 - y) * fxy1 + (y - y1) * fxy2, (x2 - x1) * (y2 - y1)>>

\* index search and bilinear interpolation, the same in the three lookups
\* (lines 142-176, 214-245, 285-316); fxy1 and fxy2 carry the denominator
\* x2 - x1
Bilinear(A, B, T, x, y) ==
  LET xIndex == FindIndex(A, x, Len(A) - 2)
      yIndex == FindIndex(B, y, Len(B) - 2)
      x1 == A[xIndex + 1] * Q
      x2 == A[xIndex + 2] * Q
      y1 == B[yIndex + 1] * Q
      y2 == B[yIndex + 2] * Q
      fxy1 == (x2 - x) * T[xIndex + 1][yIndex + 1]
                + (x - x1) * T[xIndex + 2][yIndex + 1]
      fxy2 == (x2 - x) * T[xIndex + 1][yIndex + 2]
                + (x - x1) * T[xIndex + 2][yIndex + 2]
  IN  <<(y2 - y) * fxy1 + (y - y1) * fxy2, (x2 - x1) * (y2 - y1)>>

OutOfAxis(A, v) == v < A[1] * Q \/ v > A[Len(A)] * Q

powerFromSpeedPos(speedMph, posLogical) ==
  IF OutOfAxis(X, speedMph) THEN <<0, 1>>
  ELSE IF OutOfAxis(Y, posLogical) THEN <<0, 1>>
  ELSE Bilinear(X, Y, Z, speedMph, posLogical)

stepFromPowerSpeed(speedMph, targetWatts) ==
  IF OutOfAxis(Xw, speedMph) THEN <<0, 1>>
  ELSE IF OutOfAxis(Yw, targetWatts) THEN <<0, 1>>
  ELSE Bilinear(Xw, Yw, Zw, speedMph, targetWatts)

\* the SIM lookup interpolating with the grade as given, never clamped
gradeToSteps_NoClamp(speedMph, gradePercent) ==
  IF OutOfAxis(Xstep, speedMph) THEN <<500, 1>>
  ELSE Bilinear(Xstep, Ystep, Zstep, speedMph, gradePercent)

gradeToSteps(speedMph, gradePercent) ==
  IF OutOfAxis(Xstep, speedMph) THEN <<500, 1>>
  ELSE Bilinear(Xstep, Ystep, Zstep, speedMph,
                constrain(gradePercent, Ystep[1] * Q, Ystep[Len(Ystep)] * Q))

\* ------------------------------------------- the wrap of the micros() counter
\* the controller at rest after a successful stepperHome: the motor switched
\* off by the idle timeout, every register as stepperHome and the last
\* stepperUpdate calls left it
AtRestAfterHoming ==
  /\ logStepPos = 0 /\ logStepTarget = 0
  /\ physStepPos = 0 /\ physStepTarget = 0
  /\ gIsHoming = FALSE /\ gRehomeRequested = FALSE
  /\ stepSpeedSps = HOMING_SPEED_SPS * FP
  /\ stepIntervalUs = spsToIntervalUs(HOMING_SPEED_SPS * FP)
  /\ lastStepUs = 0
  /\ gLastDir = 0 /\ gDirJustChanged = FALSE
  /\ runSpeedSps = HOMING_SPEED_SPS * FP
  /\ rampLastUs = BootUs /\ rampCurSps = rampStartSps * FP
  /\ gStepEn = FALSE /\ gSettledSinceMs = 0
  /\ gLimitStable = 1 /\ gLimitRawLast = 1 /\ gLimitLastChangeMs = 198
  /\ dirPin = TRUE
  /\ pc = "loop" /\ home_i = HOME_SETTLE_ITERS /\ home_t0 = 62
  /\ switchFault = "none" /\ carriage = 96
  /\ webReqs = 0 /\ loopTicks = 0
  /\ homePulses = <<"toward", "away">>
  /\ heldSinceMs = -1 /\ pulsedSinceEnable = FALSE

\* passes of the main loop before and after the wrap
WrapLeadPasses == 3
WrapTailPasses == 3

\* the controller has been at rest since shortly after boot, and the counter
\* behind micros() is WrapLeadPasses passes of the main loop before its wrap
InitWrap ==
  /\ AtRestAfterHoming
  /\ microsWraps = 1
  /\ nowUs = -(WrapLeadPasses * TickLoopUs)
  /\ HoldInit /\ FnIdle /\ HallInit /\ MoreInit

\* one pass of the main loop: TickLoopUs later stepperUpdate is called
LoopPass ==
  /\ pc = "loop"
  /\ nowUs < WrapTailPasses * TickLoopUs
  /\ nowUs' = nowUs + TickLoopUs
  /\ Store(stepperUpdate(Load, switchFault, nowUs'))
  /\ heldSinceMs' =
       IF ~gStepEn' \/ ~Held THEN -1
       ELSE IF heldSinceMs = -1 THEN Millis(nowUs') ELSE heldSinceMs
  /\ pulsedSinceEnable' =
       IF physStepPos' # physStepPos THEN TRUE
       ELSE IF ~gStepEn /\ gStepEn' THEN FALSE
       ELSE pulsedSinceEnable
  /\ UNCHANGED <<pc, home_i, home_t0, envVars, webReqs, homePulses, auxVars>>

NextWrap ==
  \/ LoopPass
  \/ \E pos \in GotoArgs : HandleGoto(pos)

SpecWrap == InitWrap /\ [][NextWrap]_vars

\* ------------------------------------------------- bouncing limit switch
\* time between two passes of the main loop, and the time a run lasts
DebounceTicks == {1000, 3000, 8000}
MaxDebounceUs == 20000

\* the main loop takes d microseconds to come round
TickDebounce(d) ==
  /\ pc = "loop"
  /\ nowUs + d <= BootUs + MaxDebounceUs
  /\ nowUs' = nowUs + d
  /\ UNCHANGED <<stepperVars, pc, home_i, home_t0, envVars, webReqs, obsVars,
                 auxVars>>

\* the contact of the limit switch opens or closes: LIMIT_PIN reads 1 or 0
Bounce(f) ==
  /\ pc = "loop"
  /\ f # switchFault
  /\ switchFault' = f
  /\ UNCHANGED <<stepperVars, pc, home_i, home_t0, nowUs, loopTicks,
                 microsWraps, webReqs, obsVars, auxVars>>

NextDebounce ==
  \/ \E d \in DebounceTicks : TickDebounce(d)
  \/ \E f \in {"open", "shorted"} : Bounce(f)
  \/ StepperUpdate

SpecDebounce == Init /\ [][NextDebounce]_vars

\* ------------------------------------------------------ target resolution
\* lround of the fraction r = <<num, den>>, den > 0
lround(r) ==
  IF r[1] >= 0 THEN (2 * r[1] + r[2]) \div (2 * r[2])
  ELSE -((2 * (-r[1]) + r[2]) \div (2 * r[2]))

\* the manual hold as one record
Hold == [active |-> gManualHoldActive, target |-> gManualHoldTarget]

SetHold(h) ==
  /\ gManualHoldActive' = h.active
  /\ gManualHoldTarget' = h.target

\* web_server.cpp lines 724-725, with the hold position stored but the hold
\* not switched on
handleGotoHold_NotActivated(h, pos) == [h EXCEPT !.target = clampLogical(pos)]

\* web_server.cpp lines 724-725
handleGotoHold(h, pos) == [active |-> TRUE, target |-> clampLogical(pos)]

\* web_server.cpp lines 736-744; grade in tenths of a percent
handleGradeHold(h, speedMph, grade) ==
  LET g == constrain(grade, -4 * Q, 10 * Q)
  IN  [active |-> TRUE,
       target |-> clampLogical(lround(gradeToSteps(speedMph, g)))]

\* web_server.cpp line 750
handleResumeApp(h) == [h EXCEPT !.active = FALSE]

\* arguments of the hold requests: pos, and grade in tenths of a percent
HoldArgs == {-5, 700, 1200}
GradeArgs == {-60, 50, 120}
\* commands of the training application and speeds the sensors report
ModeArgs == {"IDLE", "SIM", "ERG"}
ErgArgs == {150}
SimArgs == {40}
SpeedArgs == {100}
\* positions of the idle curve, whose coefficients calibration.cpp takes
\* from outside the sources
IdleTargets == {0, 350}

\* the request is one of the MaxWebReqs requests of the run
Metered == webReqs < MaxWebReqs /\ webReqs' = webReqs + 1

\* the request is served without being counted
Unmetered == UNCHANGED webReqs

\* GET /goto_hold?pos=..
HandleGotoHold(pos) ==
  /\ pc = "loop"
  /\ SetHold(handleGotoHold(Hold, pos))
  /\ UNCHANGED <<stepperVars, pc, home_i, home_t0, nowUs, envVars, obsVars,
                 gMode, ergTargetWatts, simGradePercent, currentSpeedMph,
                 fnVars, hallVars, moreVars>>

\* GET /grade_hold?grade=..
HandleGradeHold(grade) ==
  /\ pc = "loop"
  /\ SetHold(handleGradeHold(Hold, currentSpeedMph, grade))
  /\ UNCHANGED <<stepperVars, pc, home_i, home_t0, nowUs, envVars, obsVars,
                 gMode, ergTargetWatts, simGradePercent, currentSpeedMph,
                 fnVars, hallVars, moreVars>>

\* GET /resume_app
HandleResumeApp ==
  /\ pc = "loop"
  /\ SetHold(handleResumeApp(Hold))
  /\ UNCHANGED <<stepperVars, pc, home_i, home_t0, nowUs, envVars, obsVars,
                 gMode, ergTargetWatts, simGradePercent, currentSpeedMph,
                 fnVars, hallVars, moreVars>>

\* setMode, setErgTarget, setSimGrade: commands of the training application
SetMode(m) ==
  /\ pc = "loop" /\ gMode # m
  /\ gMode' = m
  /\ UNCHANGED <<stepperVars, pc, home_i, home_t0, nowUs, envVars, webReqs,
                 obsVars, ergTargetWatts, simGradePercent, currentSpeedMph,
                 gManualHoldActive, gManualHoldTarget, fnVars, hallVars, moreVars>>

SetErgTarget(w) ==
  /\ pc = "loop" /\ ergTargetWatts # w
  /\ ergTargetWatts' = w
  /\ UNCHANGED <<stepperVars, pc, home_i, home_t0, nowUs, envVars, webReqs,
                 obsVars, gMode, simGradePercent, currentSpeedMph,
                 gManualHoldActive, gManualHoldTarget, fnVars, hallVars, moreVars>>

SetSimGrade(g) ==
  /\ pc = "loop" /\ simGradePercent # g
  /\ simGradePercent' = g
  /\ UNCHANGED <<stepperVars, pc, home_i, home_t0, nowUs, envVars, webReqs,
                 obsVars, gMode, ergTargetWatts, currentSpeedMph,
                 gManualHoldActive, gManualHoldTarget, fnVars, hallVars, moreVars>>

\* sensorsUpdate publishes a new speed (tenths of a mph)
SensorsSpeed(v) ==
  /\ pc = "loop" /\ currentSpeedMph # v
  /\ currentSpeedMph' = v
  /\ UNCHANGED <<stepperVars, pc, home_i, home_t0, nowUs, envVars, webReqs,
                 obsVars, gMode, ergTargetWatts, simGradePercent,
                 gManualHoldActive, gManualHoldTarget, fnVars, hallVars, moreVars>>

\* the positions the control mode resolves to
ModeTargets ==
  CASE gMode = "ERG" ->
         {lround(stepFromPowerSpeed(currentSpeedMph, ergTargetWatts * Q))}
    [] gMode = "SIM" ->
         {lround(gradeToSteps(currentSpeedMph, simGradePercent))}
    [] OTHER -> IdleTargets

\* one control cycle of the target resolver: the hold overrides the mode
ResolveTarget ==
  /\ pc = "loop"
  /\ \E m \in ModeTargets :
       Store(stepperSetTarget(Load,
               IF gManualHoldActive THEN gManualHoldTarget ELSE m))
  /\ UNCHANGED <<pc, home_i, home_t0, nowUs, envVars, webReqs, obsVars,
                 auxVars>>

NextHold ==
  \/ \E pos \in HoldArgs : Unmetered /\ HandleGotoHold(pos)
  \/ \E grade \in GradeArgs : Unmetered /\ HandleGradeHold(grade)
  \/ Unmetered /\ HandleResumeApp
  \/ \E m \in ModeArgs : SetMode(m)
  \/ \E w \in ErgArgs : SetErgTarget(w)
  \/ \E g \in SimArgs : SetSimGrade(g)
  \/ \E v \in SpeedArgs : SensorsSpeed(v)
  \/ ResolveTarget

SpecHold == Init /\ [][NextHold]_vars

\* stepperHome called in the first pass of the main loop, and the control
\* loop before and after it
NextHome ==
  \/ TickHomed
  \/ StepperUpdate
  \/ \E pos \in GotoArgs : HandleGoto(pos)
  \/ \E on \in BOOLEAN : HandleEnable(on)
  \/ StepperRequestRehome
  \/ HomeStart
  \/ HomeSettle
  \/ HomeEnterBackoff
  \/ HomeSkipBackoff
  \/ HomeBackoffPulse
  \/ HomeBackoffExit
  \/ HomeSeekPulse
  \/ HomeTimeout
  \/ HomeComplete

SpecHome == Init /\ [][NextHome]_vars

\* every writer of the positions, the targets and the hold: the web requests,
\* stepperUpdate, and stepperHome called in the first pass of the main loop
NextRange ==
  \/ TickStall
  \/ StepperUpdate
  \/ \E pos \in GotoArgs : HandleGoto(pos)
  \/ \E on \in BOOLEAN : HandleEnable(on)
  \/ \E pos \in HoldArgs : Metered /\ HandleGotoHold(pos)
  \/ \E grade \in GradeArgs : Metered /\ HandleGradeHold(grade)
  \/ Metered /\ HandleResumeApp
  \/ HomeStart
  \/ HomeSettle
  \/ HomeEnterBackoff
  \/ HomeSkipBackoff
  \/ HomeBackoffPulse
  \/ HomeBackoffExit
  \/ HomeSeekPulse
  \/ HomeTimeout
  \/ HomeComplete

SpecRange == Init /\ [][NextRange]_vars

\* ------------------------------------------- calls of the pure functions
\* the other variables of a run that only observes one call
QuietStepper ==
  BootState /\ switchFault = "none" /\ carriage = 0 /\ HoldInit /\ HallInit

Quiet == QuietStepper /\ MoreInit

\* the call under observation returns r
Return(f, r) ==
  /\ fnCall # <<>> /\ fnCall[1] = f /\ fnOut = <<>>
  /\ fnOut' = r
  /\ UNCHANGED <<stepperVars, pc, home_i, home_t0, nowUs, envVars, webReqs,
                 obsVars, holdVars, fnCall, hallVars, moreVars>>

\* arguments of the conversions: the ranges and a margin outside them
ConvMargin == 8
ConvLogicalArgs == (LOGICAL_MIN - ConvMargin) .. (LOGICAL_MAX + ConvMargin)
ConvStepArgs == (PHYS_MIN_STEPS - ConvMargin) .. (PHYS_MAX_STEPS + ConvMargin)

\* logical -> physical -> logical, once and twice
LogicalRoundTrip(p) == stepsToLogical(logicalToSteps(p))

\* physical -> logical -> physical, once and twice
StepsRoundTrip(s) == logicalToSteps(stepsToLogical(s))

InitConv ==
  /\ Quiet /\ fnOut = <<>>
  /\ \/ \E l \in ConvLogicalArgs :
          fnCall \in {<<"logicalToSteps", l>>, <<"logicalRoundTrip", l>>}
     \/ \E s \in ConvStepArgs :
          fnCall \in {<<"stepsToLogical", s>>, <<"stepsRoundTrip", s>>}

CallLogicalToSteps ==
  Return("logicalToSteps", <<logicalToSteps(fnCall[2])>>)

CallStepsToLogical ==
  Return("stepsToLogical", <<stepsToLogical(fnCall[2])>>)

CallLogicalRoundTrip ==
  Return("logicalRoundTrip",
         <<LogicalRoundTrip(fnCall[2]),
           LogicalRoundTrip(LogicalRoundTrip(fnCall[2]))>>)

CallStepsRoundTrip ==
  Return("stepsRoundTrip",
         <<StepsRoundTrip(fnCall[2]),
           StepsRoundTrip(StepsRoundTrip(fnCall[2]))>>)

NextConv ==
  \/ CallLogicalToSteps
  \/ CallStepsToLogical
  \/ CallLogicalRoundTrip
  \/ CallStepsRoundTrip

SpecConv == InitConv /\ [][NextConv]_vars

\* arguments of a lookup along one axis: the nodes, the midpoints between
\* neighbours, and one value beyond each end
AxisArgs(A) ==
  {A[i] * Q : i \in 1 .. Len(A)}
    \cup {((A[i] + A[i + 1]) * Q) \div 2 : i \in 1 .. Len(A) - 1}
    \cup {A[1] * Q - 1, A[Len(A)] * Q + 1}

InitLookup ==
  /\ Quiet /\ fnOut = <<>>
  /\ \/ \E x \in AxisArgs(X), y \in AxisArgs(Y) :
          fnCall = <<"powerFromSpeedPos", x, y>>
     \/ \E x \in AxisArgs(Xw), y \in AxisArgs(Yw) :
          fnCall = <<"stepFromPowerSpeed", x, y>>
     \/ \E x \in AxisArgs(Xstep), y \in AxisArgs(Ystep) :
          fnCall = <<"gradeToSteps", x, y>>

CallPowerFromSpeedPos ==
  Return("powerFromSpeedPos", powerFromSpeedPos(fnCall[2], fnCall[3]))

CallStepFromPowerSpeed ==
  Return("stepFromPowerSpeed", stepFromPowerSpeed(fnCall[2], fnCall[3]))

CallGradeToSteps ==
  Return("gradeToSteps", gradeToSteps(fnCall[2], fnCall[3]))

NextLookup ==
  \/ CallPowerFromSpeedPos
  \/ CallStepFromPowerSpeed
  \/ CallGradeToSteps

SpecLookup == InitLookup /\ [][NextLookup]_vars

\* -------------------------------------------------------- the idle curve
\* the coefficients of the idle curve as one record
IdleCurve ==
  [a |-> gIdleCurveA, b |-> gIdleCurveB, c |-> gIdleCurveC, d |-> gIdleCurveD]

\* calibration.cpp lines 186-189: the cubic at a speed in tenths of a mph,
\* as a fraction
IdlePoly(k, speed) ==
  <<k.a * 1000 + k.b * 100 * speed + k.c * 10 * speed * speed
      + k.d * speed * speed * speed, 1000>>

\* calibration.cpp lines 184-191, with the rounded position returned as it is
idlePositionFromSpeed_NoResultClamp(k, speedMph) ==
  lround(IdlePoly(k, constrain(speedMph, 0, 50 * Q)))

\* calibration.cpp lines 184-191
idlePositionFromSpeed(k, speedMph) ==
  LET speed == constrain(speedMph, 0, 50 * Q)
      pos == IdlePoly(k, speed)
  IN  constrain(lround(pos), LOGICAL_MIN, LOGICAL_MAX)

\* coefficients a, b, c, d the web interface has stored, and speeds in tenths
\* of a mph: negative, inside the range, just above it and very large
IdleCurveArgs ==
  {IdleCurveBoot, <<300, 30, 0, 0>>, <<-200, 10, 0, 0>>, <<900, -60, 1, 0>>,
   <<0, 0, 0, 1>>, <<100, 0, -2, 0>>}
IdleSpeedArgs ==
  {-1000000000, -1, 501, 1000000000} \cup {25 * i : i \in 0 .. 20}

InitIdle ==
  /\ QuietStepper /\ FilterInit /\ TripInit /\ SettleInit
  /\ TablesDefault /\ prefs = EmptyPrefs /\ calPc = "run" /\ calEdits = 0
  /\ \E k \in IdleCurveArgs : IdleCurveIs(k)
  /\ fnOut = <<>>
  /\ \E v \in IdleSpeedArgs : fnCall = <<"idlePositionFromSpeed", v>>

CallIdlePositionFromSpeed ==
  Return("idlePositionFromSpeed",
         <<idlePositionFromSpeed(IdleCurve, fnCall[2])>>)

NextIdle == CallIdlePositionFromSpeed

SpecIdle == InitIdle /\ [][NextIdle]_vars

\* -------------------------------------------------- calibration tables
\* number of cells set in one run
MaxCalEdits == 2

\* sizeof(double)
SizeOfDouble == 8

\* sizeof of a table of doubles
SizeOfTable(rows, cols) == rows * cols * SizeOfDouble

\* calibration.cpp lines 254-258
powerTableSet(T, row, col, value) ==
  IF row >= 0 /\ row < POWER_TABLE_ROWS /\ col >= 0 /\ col < POWER_TABLE_COLS
  THEN [T EXCEPT ![row + 1][col + 1] = value]
  ELSE T

\* lines 291-295, with the bounds of the power table
ergTableSet_PowerBounds(T, row, col, value) ==
  IF row >= 0 /\ row < POWER_TABLE_ROWS /\ col >= 0 /\ col < POWER_TABLE_COLS
  THEN [T EXCEPT ![row + 1][col + 1] = value]
  ELSE T

\* calibration.cpp lines 291-295
ergTableSet(T, row, col, value) ==
  IF row >= 0 /\ row < ERG_TABLE_ROWS /\ col >= 0 /\ col < ERG_TABLE_COLS
  THEN [T EXCEPT ![row + 1][col + 1] = value]
  ELSE T

\* calibration.cpp lines 328-332
simTableSet(T, row, col, value) ==
  IF row >= 0 /\ row < SIM_TABLE_ROWS /\ col >= 0 /\ col < SIM_TABLE_COLS
  THEN [T EXCEPT ![row + 1][col + 1] = value]
  ELSE T

\* lines 382-385, one table: loaded whenever a blob is stored
LoadTable_AnySize(blob, T, size) == IF blob.len # 0 THEN blob.data ELSE T

\* lines 382-385, 389-392, 396-399: the table after the load of one blob
LoadTable(blob, T, size) == IF blob.len = size THEN blob.data ELSE T

\* calibration.cpp lines 375-403: the three tables after the load
calibrationTablesLoad(P, power, erg, sim) ==
  IF ~P.ns THEN <<power, erg, sim>>
  ELSE << LoadTable(P.powerTbl, power,
                    SizeOfTable(POWER_TABLE_ROWS, POWER_TABLE_COLS)),
          LoadTable(P.ergTbl, erg,
                    SizeOfTable(ERG_TABLE_ROWS, ERG_TABLE_COLS)),
          LoadTable(P.simTbl, sim,
                    SizeOfTable(SIM_TABLE_ROWS, SIM_TABLE_COLS)) >>

\* a table saved after an edit of every cell
Stored(T) == [i \in DOMAIN T |-> [j \in DOMAIN T[i] |-> T[i][j] + 1]]

\* what the store can hold under the key of a table: nothing, a blob of the
\* size of the table, or a blob one row short or one row long (a table saved
\* by a build with other dimensions)
BlobArgs(T, rows, cols) ==
  { NoBlob,
    [len |-> SizeOfTable(rows, cols), data |-> Stored(T)],
    [len |-> SizeOfTable(rows - 1, cols),
     data |-> SubSeq(Stored(T), 1, rows - 1)],
    [len |-> SizeOfTable(rows + 1, cols),
     data |-> Append(Stored(T), T[1])] }

\* the store at boot: no namespace yet, or a namespace with any blobs
PrefsArgs ==
  { [EmptyPrefs EXCEPT !.ns = FALSE] }
    \cup [ ns : {TRUE},
           powerTbl : BlobArgs(DEFAULT_POWER_TABLE, POWER_TABLE_ROWS,
                               POWER_TABLE_COLS),
           ergTbl : BlobArgs(DEFAULT_ERG_TABLE, ERG_TABLE_ROWS,
                             ERG_TABLE_COLS),
           simTbl : BlobArgs(DEFAULT_SIM_TABLE, SIM_TABLE_ROWS,
                             SIM_TABLE_COLS) ]

\* row and column arguments of the setters: the first and the last index,
\* and one beyond each; values
IndexArgs(n) == {-1, 0, n - 1, n}
ValueArgs == {-1, 4000}

\* calibrationInit is about to load the tables
InitCal ==
  /\ QuietStepper /\ FnIdle /\ FilterInit /\ TripInit /\ SettleInit
  /\ TablesDefault /\ IdleCurveIs(IdleCurveBoot)
  /\ prefs \in PrefsArgs
  /\ calPc = "boot" /\ calEdits = 0

calFrame == <<gIdleCurveA, gIdleCurveB, gIdleCurveC, gIdleCurveD,
              gPowerSpeedAxis, gPowerPosAxis, gErgSpeedAxis, gErgPowerAxis,
              gSimSpeedAxis, gSimGradeAxis, prefs>>

notCalVars == <<stepperVars, pc, home_i, home_t0, nowUs, envVars, webReqs,
                obsVars, holdVars, fnVars, hallVars, filterVars, tripVars,
                settleVars>>

CalibrationTablesLoad ==
  /\ calPc = "boot"
  /\ calPc' = "run"
  /\ LET t == calibrationTablesLoad(prefs, gPowerTable, gErgTable, gSimTable)
     IN  /\ gPowerTable' = t[1]
         /\ gErgTable' = t[2]
         /\ gSimTable' = t[3]
  /\ UNCHANGED <<calFrame, calEdits, notCalVars>>

\* one cell is set
Edit == calPc = "run" /\ calEdits < MaxCalEdits /\ calEdits' = calEdits + 1

PowerTableSet(row, col, value) ==
  /\ Edit
  /\ gPowerTable' = powerTableSet(gPowerTable, row, col, value)
  /\ UNCHANGED <<gErgTable, gSimTable, calFrame, calPc, notCalVars>>

ErgTableSet(row, col, value) ==
  /\ Edit
  /\ gErgTable' = ergTableSet(gErgTable, row, col, value)
  /\ UNCHANGED <<gPowerTable, gSimTable, calFrame, calPc, notCalVars>>

SimTableSet(row, col, value) ==
  /\ Edit
  /\ gSimTable' = simTableSet(gSimTable, row, col, value)
  /\ UNCHANGED <<gPowerTable, gErgTable, calFrame, calPc, notCalVars>>

\* calibrationInit at boot
NextCal == CalibrationTablesLoad

SpecCal == InitCal /\ [][NextCal]_vars

\* the web interface edits the tables of a device that never saved one
InitTables == Quiet /\ FnIdle

NextTables ==
  \/ \E r \in IndexArgs(POWER_TABLE_ROWS), c \in IndexArgs(POWER_TABLE_COLS),
        v \in ValueArgs : PowerTableSet(r, c, v)
  \/ \E r \in IndexArgs(ERG_TABLE_ROWS), c \in IndexArgs(ERG_TABLE_COLS),
        v \in ValueArgs : ErgTableSet(r, c, v)
  \/ \E r \in IndexArgs(SIM_TABLE_ROWS), c \in IndexArgs(SIM_TABLE_COLS),
        v \in ValueArgs : SimTableSet(r, c, v)

SpecTables == InitTables /\ [][NextTables]_vars

\* ------------------------------------------------------------ the RPM filter
\* filterRPM computes in binary32. The RPM values of the model are those of
\* one binade, 128 <= v < 256, held as their 24-bit significands: v = m * 2^-16
\* with Binade <= m < 2 * Binade; 0 stands for the 0.0f of the variable before
\* the first call.
MaxFilterCalls == 5

Binade == 8388608

RPM_FILTER_TAU_MS == 600

\* the binary32 nearest to n / 2 for an integer n of at most 25 bits: exact
\* when n is even, the neighbour of even significand on a tie
RoundHalfEven(n) ==
  LET f == n \div 2
  IN  IF n % 2 = 0 \/ f % 2 = 0 THEN f ELSE f + 1

\* lines 108-113 for the two elapsed times that binary32 evaluates without a
\* rounding before the final sum. dt = 0 gives alpha = 0 and 0 * raw + 1 * f.
\* dt = 600 ms gives dt = fl(0.6) = RPM_FILTER_TAU_S, tau + dt = 2 * dt and
\* alpha = 1 - alpha = 1/2 exactly, both products are halvings, and the sum
\* (raw + f) / 2 is rounded once (a fused multiply-add gives the same sum)
Blend(dtMs, raw, filtered) ==
  IF dtMs = 0 THEN filtered ELSE RoundHalfEven(raw + filtered)

filterRPM_Hold(F, raw, now) ==
  IF F.last = 0 THEN [filtered |-> raw, last |-> now]
  ELSE [filtered |-> F.filtered, last |-> now]

\* lines 98-115
filterRPM(F, raw, now) ==
  IF F.last = 0 THEN [filtered |-> raw, last |-> now]
  ELSE [filtered |-> Blend(now - F.last, raw, F.filtered), last |-> now]

\* raw values at the ends of the binade, neighbours of odd and of even
\* significand, and values several units apart
RawArgs == {Binade, Binade + 1, Binade + 2, Binade + 13, Binade + 64,
            2 * Binade - 1}

\* time between two calls: the same millisecond, or the time constant
DtArgs == {0, RPM_FILTER_TAU_MS}

InitFilter == Quiet /\ FnIdle

notFilterVars == <<stepperVars, pc, home_i, home_t0, nowUs, envVars, webReqs,
                   obsVars, holdVars, fnVars, hallVars, calVars, tripVars,
                   settleVars>>

\* sensors.cpp:335, one speed update
FilterRPM(raw, dtMs) ==
  /\ filterCalls < MaxFilterCalls
  /\ filterCalls' = filterCalls + 1
  /\ filterNowMs' = filterNowMs + dtMs
  /\ filterRaw' = raw
  /\ LET F == filterRPM([filtered |-> gRpmFiltered, last |-> gLastRpmFilterMs],
                        raw, filterNowMs')
     IN  gRpmFiltered' = F.filtered /\ gLastRpmFilterMs' = F.last
  /\ UNCHANGED notFilterVars

NextFilter == \E raw \in RawArgs, dtMs \in DtArgs : FilterRPM(raw, dtMs)

SpecFilter == InitFilter /\ [][NextFilter]_vars

\* ------------------------------------------------------------ Hall sensor
HALL_MIN_DT_US == 1500
HALL_HOLDOFF_US == 3000
HALL_PULSES_PER_REV == 6

\* micros()
Micros == U32(hallClock)

HallLoad ==
  [gLastHallUs |-> gLastHallUs, gHallIntervalUs |-> gHallIntervalUs,
   gHallEdges |-> gHallEdges, gLastAcceptedHallUs |-> gLastAcceptedHallUs]

\* hallISR, lines 56-77, entered when micros() reads now
hallISR(h, now) ==
  LET sinceAccepted == U32Sub(now, h.gLastAcceptedHallUs)
      dt == U32Sub(now, h.gLastHallUs)
  IN  IF h.gLastAcceptedHallUs # Wide(0)
         /\ WLess(sinceAccepted, Wide(HALL_HOLDOFF_US))
      THEN h
      ELSE IF h.gLastHallUs # Wide(0) /\ WLess(dt, Wide(HALL_MIN_DT_US))
      THEN h
      ELSE [gLastHallUs |-> now, gHallIntervalUs |-> dt,
            gHallEdges |-> h.gHallEdges + 1, gLastAcceptedHallUs |-> now]

\* the rate (1e6 / dt) / HALL_PULSES_PER_REV * 60 as the fraction
\* <<numerator, denominator>>, the denominator in limbs
Rpm(dt) == <<1000000 * 60, WMul(dt, HALL_PULSES_PER_REV)>>
ZeroRpm == <<0, Wide(1)>>

\* readRPM after the critical section, lines 88-95
readRPM(dt, last, now) ==
  IF last = Wide(0) THEN ZeroRpm
  ELSE IF WLess(Wide(1000000), U32Sub(now, last)) THEN ZeroRpm
  ELSE IF dt = Wide(0) THEN ZeroRpm
  ELSE Rpm(dt)

\* interrupts are never masked
IrqMasked_Never == FALSE

\* between noInterrupts() and interrupts(), lines 82-85
IrqMasked == rdPc = "masked"

\* bounds of a run: passages of time, accepted edges
MaxHallTicks == 5
MaxHallEdges == 3
\* time between two events: inside the holdoff, a pulse interval, longer
\* than a second, and up to the wrap of the 32-bit counter
HallDeltas ==
  {Wide(1000), Wide(5000), Wide(2000000), WSub(<<Limb, 0>>, HallAttachUs)}

notHallVars == <<stepperVars, pc, home_i, home_t0, nowUs, envVars, webReqs,
                 obsVars, holdVars, fnVars, moreVars>>

\* time passes
HallTick(d) ==
  /\ hallTicks < MaxHallTicks
  /\ hallTicks' = hallTicks + 1
  /\ hallClock' = WAdd(hallClock, d)
  /\ UNCHANGED <<gLastHallUs, gHallIntervalUs, gHallEdges,
                 gLastAcceptedHallUs, rdPc, rdDt, rdLast, rawRpm,
                 hallAcceptedAt, rdDtEdge, rdLastEdge, rdAcceptedAt, rdAt,
                 notHallVars>>

\* a falling edge on HALL_PIN runs hallISR
HallEdge ==
  /\ ~IrqMasked
  /\ gHallEdges < MaxHallEdges
  /\ LET h == hallISR(HallLoad, Micros)
     IN  /\ gLastHallUs' = h.gLastHallUs
         /\ gHallIntervalUs' = h.gHallIntervalUs
         /\ gHallEdges' = h.gHallEdges
         /\ gLastAcceptedHallUs' = h.gLastAcceptedHallUs
         /\ hallAcceptedAt' = IF h.gHallEdges # gHallEdges THEN hallClock
                              ELSE hallAcceptedAt
  /\ UNCHANGED <<hallClock, hallTicks, rdPc, rdDt, rdLast, rawRpm,
                 rdDtEdge, rdLastEdge, rdAcceptedAt, rdAt, notHallVars>>

\* readRPM lines 82-83: noInterrupts(); dt = gHallIntervalUs
ReadBegin ==
  /\ rdPc = "idle"
  /\ rdPc' = "masked"
  /\ rdDt' = gHallIntervalUs
  /\ rdDtEdge' = gHallEdges
  /\ UNCHANGED <<gLastHallUs, gHallIntervalUs, gHallEdges,
                 gLastAcceptedHallUs, hallClock, hallTicks, rdLast, rawRpm,
                 hallAcceptedAt, rdLastEdge, rdAcceptedAt, rdAt, notHallVars>>

\* readRPM lines 84-85: last = gLastHallUs; interrupts()
ReadLast ==
  /\ rdPc = "masked"
  /\ rdPc' = "open"
  /\ rdLast' = gLastHallUs
  /\ rdLastEdge' = gHallEdges
  /\ rdAcceptedAt' = hallAcceptedAt
  /\ UNCHANGED <<gLastHallUs, gHallIntervalUs, gHallEdges,
                 gLastAcceptedHallUs, hallClock, hallTicks, rdDt, rawRpm,
                 hallAcceptedAt, rdDtEdge, rdAt, notHallVars>>

\* readRPM lines 88-95
ReadReturn ==
  /\ rdPc = "open"
  /\ rdPc' = "idle"
  /\ rawRpm' = readRPM(rdDt, rdLast, Micros)
  /\ rdAt' = hallClock
  /\ UNCHANGED <<gLastHallUs, gHallIntervalUs, gHallEdges,
                 gLastAcceptedHallUs, hallClock, hallTicks, rdDt, rdLast,
                 hallAcceptedAt, rdDtEdge, rdLastEdge, rdAcceptedAt,
                 notHallVars>>

NextHall ==
  \/ \E d \in HallDeltas : HallTick(d)
  \/ HallEdge
  \/ ReadBegin
  \/ ReadLast
  \/ ReadReturn

InitHall == Quiet /\ FnIdle

SpecHall == InitHall /\ [][NextHall]_vars

\* ------------------------------------------------------------ the claims
AbsErr == iabs32(logStepTarget - logStepPos)

\* stepperUpdate issued a step pulse
Stepped == StepperUpdate /\ physStepPos' # physStepPos

\* C1: every step that stepperUpdate issues while the error is within the
\* slow zone is paced by an interval no shorter than the one of the slow-zone
\* rate, and the ramp speed is then not above that rate
C1_SlowZonePacing ==
  [][(Stepped /\ AbsErr <= slowZoneSteps)
       => /\ stepIntervalUs' >= spsToIntervalUs(slowZoneSps * FP)
          /\ rampCurSps' <= slowZoneSps * FP]_vars

\* C2: a stepperUpdate call that ends a series of calls which held the
\* enabled motor within the off deadband for STEP_IDLE_OFF_MS leaves the
\* motor disabled, and a call that finds the motor disabled, nothing pending
\* and the error within the off deadband leaves it disabled
C2_Hysteresis ==
  [][StepperUpdate =>
       /\ (HeldSince # -1 /\ Millis(nowUs) - HeldSince >= STEP_IDLE_OFF_MS)
            => ~gStepEn'
       /\ (~gStepEn /\ ~gIsHoming /\ ~gRehomeRequested
             /\ AbsErr <= STEP_OFF_DEADBAND_LOG)
            => (~gStepEn' /\ gSettledSinceMs' = gSettledSinceMs)]_vars

\* the motor has been switched on and is off again without any /enable
\* request, STEP_IDLE_OFF_MS after it was switched on: the idle threshold
\* switched it off
C2_Witness ==
  /\ ~gStepEn /\ rampLastUs # 0 /\ webReqs = 0 /\ homePulses = <<>>
  /\ Millis(nowUs) - Millis(rampLastUs) >= STEP_IDLE_OFF_MS

\* C3: a stepperUpdate call entered while homing or with a rehome pending
\* returns with the motor enabled and the settle timer cleared
C3_ForcedEnable ==
  [][(StepperUpdate /\ (gIsHoming \/ gRehomeRequested))
       => (gStepEn' /\ gSettledSinceMs' = 0)]_vars

\* the motor is on with zero error and without any /enable request: only the
\* pending rehome can have switched it on
C3_Witness ==
  /\ gRehomeRequested /\ gStepEn /\ webReqs = 0
  /\ physStepPos = 0 /\ logStepTarget = 0

\* the call reaches the direction check with an established direction that
\* is opposite to the sign of the error
Reversal ==
  /\ gStepEn /\ gStepEn'
  /\ logStepTarget # logStepPos
  /\ gLastDir # 0
  /\ gLastDir # (IF logStepTarget > logStepPos THEN 1 ELSE -1)

\* C4: a reversing stepperUpdate call restarts the ramp at rampStartSps and
\* paces its step from that speed; a call without an established direction
\* does not start a ramp reset
C4_ReversalRestartsRamp ==
  [][StepperUpdate =>
       /\ Reversal => /\ rampCurSps' = rampStartSps * FP
                      /\ rampLastUs' = nowUs
                      /\ stepIntervalUs' = spsToIntervalUs(rampStartSps * FP)
       /\ (gLastDir = 0 \/ ~gStepEn) => (gDirJustChanged' => gDirJustChanged)]_vars

\* ---------------------------------------------------------------- homing
InHome == pc # "loop"

\* stepperHome returns
HomeReturns == InHome /\ pc' = "loop"

\* stepperHome returns from a call that backed off until the switch released
\* and then sought it
ReturnsAfterRelease ==
  /\ HomeReturns
  /\ Len(homePulses) >= 2
  /\ homePulses[1] = "away" /\ homePulses[2] = "toward"

\* C5: a stepperHome call that finds the debounced switch pressed pulses away
\* while the switch reads pressed, leaves the back-off loop before its timeout
\* only with the switch released, never backs off again once it seeks, pulses
\* toward the switch only while the switch reads released, and when the switch
\* released in time it returns with position 0 and target 0
C5_BackoffThenSeek ==
  [][/\ HomeBackoffPulse => (limitPressed(Load) /\ dirPin /\ carriage' > carriage)
     /\ HomeBackoffExit
          => (~limitPressed(Load)
               \/ Millis(nowUs) - home_t0 >= HOME_BACKOFF_TIMEOUT_MS)
     /\ (pc = "seek") => (pc' # "backoff" /\ pc' # "settle")
     /\ (InHome /\ carriage' < carriage) => (pc = "seek" /\ ~limitPressed(Load))
     /\ ReturnsAfterRelease
          => /\ homePulses' = <<"away", "toward", "away">>
             /\ logStepPos' = 0 /\ logStepTarget' = 0]_vars

\* stepperHome has returned from a call that backed off, sought and backed
\* off again, with a switch that works
C5_Witness ==
  /\ pc = "loop" /\ switchFault = "none"
  /\ homePulses = <<"away", "toward", "away">>
  /\ logStepPos = 0 /\ logStepTarget = 0

\* C6: a successful stepperHome returns with both positions and both targets
\* 0 and both flags cleared, and a stepperUpdate call that finds zero error
\* issues no step
C6_HomeZeroes ==
  [][/\ HomeComplete
          => /\ physStepPos' = 0 /\ logStepPos' = 0
             /\ logStepTarget' = 0 /\ physStepTarget' = 0
             /\ ~gIsHoming' /\ ~gRehomeRequested'
     /\ (StepperUpdate /\ logStepTarget = logStepPos)
          => (physStepPos' = physStepPos /\ carriage' = carriage)]_vars

\* stepperUpdate has run after a successful homing: the clock has left the
\* time of the return, the debounce has seen the switch released by the final
\* back-off, and no step has been issued
C6_Witness ==
  /\ pc = "loop" /\ Len(homePulses) = 3
  /\ gLimitRawLast = 1 /\ gLimitStable = 1
  /\ ~gIsHoming /\ ~gRehomeRequested
  /\ physStepPos = 0 /\ logStepTarget = 0 /\ lastStepUs = 0

\* C7: a stepperHome that ends by the seek timeout returns with gIsHoming
\* false and the motor enabled, and no step of stepperHome other than the
\* successful end changes a position or a target
C7_TimeoutRetains ==
  [][/\ HomeTimeout => (~gIsHoming' /\ gStepEn')
     /\ ((HomeStart \/ InHome) /\ ~HomeComplete)
          => UNCHANGED <<logStepPos, physStepPos, logStepTarget,
                         physStepTarget>>]_vars

\* stepperHome has returned from the seek timeout with the target that a
\* /goto request had set before the call
C7_Witness ==
  /\ pc = "loop" /\ homePulses = <<"toward">> /\ switchFault = "open"
  /\ ~gIsHoming /\ gStepEn
  /\ logStepTarget = 6 /\ physStepPos = 1

\* C8: a stepperHome call whose back-off loop ended by its timeout returns
\* without redefining position or target and without clearing the rehome
\* request
C8_BackoffTimeoutFails ==
  [][(HomeReturns /\ homePulses = <<"away">>)
       => /\ gRehomeRequested' = gRehomeRequested
          /\ physStepPos' = physStepPos
          /\ logStepTarget' = logStepTarget
          /\ physStepTarget' = physStepTarget]_vars

\* the back-off loop has timed out and stepperHome has returned with the
\* switch still pressed, the target redefined and the homing flag cleared
C8_Witness ==
  /\ pc = "loop" /\ homePulses = <<"away">> /\ limitPressed(Load)
  /\ switchFault = "shorted" /\ ~gIsHoming
  /\ Millis(nowUs) - Millis(BootUs) >= HOME_BACKOFF_TIMEOUT_MS

\* the state of stepper_control.h that a caller can read
Visible(s) ==
  <<s.logStepPos, s.logStepTarget, s.physStepPos, s.physStepTarget,
    s.gStepEn, s.gIsHoming, s.gRehomeRequested>>

\* C9: when stepperHome returns from the seek timeout, the state a caller can
\* read differs from the one a successful end would have left
C9_FailureVisible ==
  [][HomeTimeout
       => Visible(HomeFail(Load)) # Visible(HomeZero(HomeFinalBackoff(Load)))]_vars

\* stepperHome has returned from the seek timeout, and every variable a
\* caller can read has the value a successful homing leaves
C9_Witness ==
  /\ pc = "loop" /\ homePulses = <<"toward">> /\ switchFault = "open"
  /\ Visible(Load) = <<0, 0, 0, 0, TRUE, FALSE, FALSE>>

\* C10: a successful stepperHome returns with the run speed that was in
\* effect when it was called
C10_RunSpeedRestored ==
  [][HomeComplete => runSpeedSps' = DEFAULT_STEP_SPEED_SPS * FP]_vars

\* stepperHome has returned successfully and the run speed is the jog speed
C10_Witness ==
  /\ pc = "loop" /\ homePulses = <<"away", "toward", "away">>
  /\ runSpeedSps = HOMING_SPEED_SPS * FP

\* -------------------------------------------------------- the conversions
Returned(f) == fnCall # <<>> /\ fnCall[1] = f /\ fnOut # <<>>

\* n / d rounded to the nearest integer, for n >= 0 and d > 0
Nearest(n, d) == (2 * n + d) \div (2 * d)

\* q is n / d rounded toward zero, for n >= 0 and d > 0
IsTruncated(q, n, d) == q * d <= n /\ n < (q + 1) * d

\* C18: logicalToSteps(l) is l * PHYS_MAX_STEPS / 1000 rounded to the nearest
\* integer and stepsToLogical(s) is s * 1000 / PHYS_MAX_STEPS rounded the
\* same way, the argument first clamped into its range
C18_ConversionRounds ==
  /\ Returned("logicalToSteps")
       => fnOut[1] = Nearest(clampLogical(fnCall[2]) * PHYS_MAX_STEPS, LOGICAL_MAX)
  /\ Returned("stepsToLogical")
       => fnOut[1] = Nearest(constrain(fnCall[2], PHYS_MIN_STEPS, PHYS_MAX_STEPS)
                               * LOGICAL_MAX, PHYS_MAX_STEPS)

\* C18 as amended: both conversions round toward zero
C18_ConversionTruncates ==
  /\ Returned("logicalToSteps")
       => IsTruncated(fnOut[1], clampLogical(fnCall[2]) * PHYS_MAX_STEPS,
                      LOGICAL_MAX)
  /\ Returned("stepsToLogical")
       => IsTruncated(fnOut[1],
                      constrain(fnCall[2], PHYS_MIN_STEPS, PHYS_MAX_STEPS)
                        * LOGICAL_MAX, PHYS_MAX_STEPS)

\* logicalToSteps(1) has returned 6, where 6.96 rounds to 7
C18_Witness ==
  Returned("logicalToSteps") /\ fnCall[2] = 1 /\ fnOut = <<6>>

\* C19: a logical round trip is off by at most 1, a physical one by at most
\* 7, and a second round trip moves the result of the first by no more
C19_RoundTripBound ==
  /\ (Returned("logicalRoundTrip") /\ fnCall[2] \in LOGICAL_MIN .. LOGICAL_MAX)
       => /\ iabs32(fnOut[1] - fnCall[2]) <= 1
          /\ iabs32(fnOut[2] - fnOut[1]) <= 1
  /\ (Returned("stepsRoundTrip") /\ fnCall[2] \in PHYS_MIN_STEPS .. PHYS_MAX_STEPS)
       => /\ iabs32(fnOut[1] - fnCall[2]) <= 7
          /\ iabs32(fnOut[2] - fnOut[1]) <= 7

\* a physical round trip has lost steps, and a logical one a unit
C19_Witness ==
  \/ Returned("stepsRoundTrip") /\ fnCall[2] = 13 /\ fnOut[1] = 6
  \/ Returned("logicalRoundTrip") /\ fnCall[2] = 1 /\ fnOut[1] = 0

\* ------------------------------------------------------------ the lookups
\* the call of f returned exactly the table value of every node (i, j) of
\* the grid A x B that its arguments coincide with
ExactAtNodes(f, A, B, T) ==
  Returned(f) =>
    \A i \in 1 .. Len(A), j \in 1 .. Len(B) :
      (fnCall[2] = A[i] * Q /\ fnCall[3] = B[j] * Q)
        => fnOut[1] = T[i][j] * fnOut[2]

\* C20: each of the three lookups, queried at a node of its grid, the last
\* index of each axis included, returns the stored table value
C20_ExactAtGridNodes ==
  /\ ExactAtNodes("powerFromSpeedPos", X, Y, Z)
  /\ ExactAtNodes("stepFromPowerSpeed", Xw, Yw, Zw)
  /\ ExactAtNodes("gradeToSteps", Xstep, Ystep, Zstep)

\* the power lookup queried at the last node of both axes has returned the
\* last cell of the table
C20_Witness ==
  /\ Returned("powerFromSpeedPos")
  /\ fnCall[2] = 50 * Q /\ fnCall[3] = 1000 * Q
  /\ fnOut[2] # 0 /\ fnOut[1] = 3324 * fnOut[2]

C12_NoTornRead ==
  rdPc = "open" => rdDtEdge = rdLastEdge

\* readRPM holds its pair read after an edge was accepted, and an edge was
\* refused entry while readRPM was inside its critical section
C12_Witness ==
  /\ rdPc = "open" /\ rdLastEdge >= 1 /\ rdDtEdge = rdLastEdge
  /\ gHallEdges > rdLastEdge

\* time from the last accepted edge to now, at full width
TrueSinceAccepted == WSub(hallClock, hallAcceptedAt)

HallStatics ==
  <<gLastHallUs, gHallIntervalUs, gHallEdges, gLastAcceptedHallUs>>

\* C13: an edge less than HALL_HOLDOFF_US after the previously accepted edge
\* is rejected and leaves timestamp, interval and edge counter unchanged; an
\* accepted edge sets the timestamp to now, the interval to the time since
\* the previously accepted edge, and adds one to the edge counter
C13_HoldoffRejects ==
  [][HallEdge =>
       /\ (hallAcceptedAt # <<>>
            /\ WLess(TrueSinceAccepted, Wide(HALL_HOLDOFF_US)))
           => UNCHANGED HallStatics
       /\ (HallStatics' # HallStatics)
           => /\ gLastHallUs' = Micros
              /\ gLastAcceptedHallUs' = Micros
              /\ gHallEdges' = gHallEdges + 1
              /\ hallAcceptedAt # <<>>
                   => gHallIntervalUs' = TrueSinceAccepted]_vars

\* an edge was accepted just now although the edge accepted before it is
\* less than HALL_HOLDOFF_US old
C13_Witness ==
  /\ gHallEdges >= 2 /\ hallAcceptedAt = hallClock
  /\ WLess(gHallIntervalUs, Wide(HALL_HOLDOFF_US))

\* the edge whose timestamp readRPM read is missing or more than a second
\* old now
Stale ==
  \/ rdAcceptedAt = <<>>
  \/ WLess(Wide(1000000), WSub(hallClock, rdAcceptedAt))

\* C14: readRPM returns 0 when no edge was accepted yet or the last accepted
\* edge is more than 1,000,000 us old at the read, whatever the 32-bit
\* counter did meanwhile, and else (1,000,000 / interval) /
\* HALL_PULSES_PER_REV * 60
C14_ZeroWhenStale ==
  [][ReadReturn =>
       rawRpm' = IF Stale THEN ZeroRpm ELSE Rpm(rdDt)]_vars

\* readRPM has just returned a rate above zero from an edge that is more
\* than a second old
C14_Witness ==
  /\ rdAt = hallClock /\ rdPc = "idle" /\ rawRpm # ZeroRpm
  /\ rdAcceptedAt # <<>>
  /\ WLess(Wide(1000000), WSub(hallClock, rdAcceptedAt))

\* ----------------------------------------------------------- limit switch
\* C15: a call of updateLimitDebounce records the sampled raw level and the
\* time of a change of it, and gives gLimitStable a new level only when the
\* level sampled in this call equals the level sampled in the call before
\* and at least LIMIT_DEBOUNCE_MS have passed since the last change that was
\* observed; a change that reverts earlier leaves gLimitStable as it is
C15_Debounce ==
  [][StepperUpdate =>
       LET raw == LimitRaw(carriage, switchFault)
           ms  == Millis(nowUs)
       IN  /\ gLimitRawLast' = raw
           /\ gLimitLastChangeMs' =
                IF raw # gLimitRawLast THEN ms ELSE gLimitLastChangeMs
           /\ gLimitStable' # gLimitStable
                => /\ gLimitStable' = raw
                   /\ raw = gLimitRawLast
                   /\ ms - gLimitLastChangeMs >= LIMIT_DEBOUNCE_MS
           /\ (raw # gLimitRawLast
               \/ ms - gLimitLastChangeMs < LIMIT_DEBOUNCE_MS)
                => gLimitStable' = gLimitStable]_vars

\* the debounced state is pressed, taken from a raw level whose last change
\* was observed after an earlier change had been observed
C15_Witness ==
  /\ pc = "loop" /\ gLimitStable = 0 /\ gLimitRawLast = 0
  /\ gLimitLastChangeMs >= Millis(BootUs) + 2

\* ------------------------------------------------------------ step pacing
\* C16: a stepperUpdate call moves physStepPos by at most one step; it
\* issues a step only if the step interval has elapsed since the last pulse
\* or no pulse was issued since the last enable; the step has the sign of
\* logStepTarget - logStepPos; with that error zero there is no step and
\* physStepPos and logStepPos stay as they are
C16_OneStepWhenDue ==
  [][LoopPass =>
       LET err == logStepTarget - logStepPos
           d   == physStepPos' - physStepPos
       IN  /\ d \in {-1, 0, 1}
           /\ d # 0 => \/ ~pulsedSinceEnable
                       \/ nowUs' - lastStepUs >= stepIntervalUs'
           /\ d = 1 => err > 0
           /\ d = -1 => err < 0
           /\ err = 0 => (d = 0 /\ logStepPos' = logStepPos)]_vars

\* stepperUpdate has issued a pulse at the instant micros() read 0, and
\* lastStepUs, which holds that instant, reads as if no pulse had been issued
C16_Witness ==
  /\ gStepEn /\ pulsedSinceEnable /\ lastStepUs = 0 /\ nowUs = 0
  /\ logStepTarget # logStepPos

\* ----------------------------------------------------------------- ranges
\* C17: in every reachable state logStepPos, logStepTarget and
\* gManualHoldTarget are within [LOGICAL_MIN, LOGICAL_MAX], and physStepPos
\* and physStepTarget within [PHYS_MIN_STEPS, PHYS_MAX_STEPS]
C17_Ranges ==
  /\ logStepPos \in LOGICAL_MIN..LOGICAL_MAX
  /\ logStepTarget \in LOGICAL_MIN..LOGICAL_MAX
  /\ gManualHoldTarget \in LOGICAL_MIN..LOGICAL_MAX
  /\ physStepPos \in PHYS_MIN_STEPS..PHYS_MAX_STEPS
  /\ physStepTarget \in PHYS_MIN_STEPS..PHYS_MAX_STEPS

\* after stepperHome, /goto and /goto_hold were called with a position above
\* the range and stepperUpdate has moved the carriage
C17_Witness ==
  /\ pc = "loop" /\ homePulses # <<>>
  /\ logStepTarget = LOGICAL_MAX /\ physStepTarget = PHYS_MAX_STEPS
  /\ gManualHoldActive /\ gManualHoldTarget = LOGICAL_MAX
  /\ physStepPos > 0

\* ------------------------------------------------- out-of-range queries
\* the greatest common divisor of m >= 0 and n >= 0
RECURSIVE Gcd(_, _)
Gcd(m, n) == IF n = 0 THEN m ELSE Gcd(n, m % n)

\* the fraction a with a positive denominator, in lowest terms
Lowest(a) ==
  LET g == Gcd(iabs32(a[1]), a[2])
  IN  <<a[1] \div g, a[2] \div g>>

\* the fractions a and b are the same number
SameValue(a, b) == a[2] > 0 /\ b[2] > 0 /\ Lowest(a) = Lowest(b)

\* C21: every lookup returns a value; the power and the ERG lookup return 0
\* when either coordinate is outside its axis; the SIM lookup returns 500
\* when the speed is outside its axis whatever the grade, and otherwise the
\* interpolation at the grade clamped into [-4, 10]
C21_OutOfRangePolicy ==
  /\ (Returned("powerFromSpeedPos")
        /\ (OutOfAxis(X, fnCall[2]) \/ OutOfAxis(Y, fnCall[3])))
       => SameValue(fnOut, <<0, 1>>)
  /\ (Returned("stepFromPowerSpeed")
        /\ (OutOfAxis(Xw, fnCall[2]) \/ OutOfAxis(Yw, fnCall[3])))
       => SameValue(fnOut, <<0, 1>>)
  /\ (Returned("gradeToSteps") /\ OutOfAxis(Xstep, fnCall[2]))
       => SameValue(fnOut, <<500, 1>>)
  /\ (Returned("gradeToSteps") /\ ~OutOfAxis(Xstep, fnCall[2]))
       => SameValue(fnOut,
                    Bilinear(Xstep, Ystep, Zstep, fnCall[2],
                             constrain(fnCall[3], -4 * Q, 10 * Q)))

\* the SIM lookup queried at 25 mph and a grade of 10.1 % has returned the
\* table value of 25 mph and 10 %
C21_Witness ==
  /\ Returned("gradeToSteps")
  /\ fnCall[2] = 25 * Q /\ fnCall[3] = 10 * Q + 1
  /\ SameValue(fnOut, <<1000, 1>>)

\* -------------------------------------------------- in-range queries
SetMin(S) == CHOOSE m \in S : \A n \in S : m <= n
SetMax(S) == CHOOSE m \in S : \A n \in S : m >= n

\* the cell (i, j) of the grid A x B encloses the point (x, y)
Encloses(A, B, i, j, x, y) ==
  /\ A[i] * Q <= x /\ x <= A[i + 1] * Q
  /\ B[j] * Q <= y /\ y <= B[j + 1] * Q

\* the four corner values of the cell (i, j)
Corners(T, i, j) == {T[i][j], T[i][j + 1], T[i + 1][j], T[i + 1][j + 1]}

\* the bilinear formula over the cell (i, j): each corner weighted by the
\* area of the rectangle opposite to it
StandardBilinear(A, B, T, i, j, x, y) ==
  LET x1 == A[i] * Q
      x2 == A[i + 1] * Q
      y1 == B[j] * Q
      y2 == B[j + 1] * Q
  IN  << T[i][j] * (x2 - x) * (y2 - y) + T[i + 1][j] * (x - x1) * (y2 - y)
           + T[i][j + 1] * (x2 - x) * (y - y1)
           + T[i + 1][j + 1] * (x - x1) * (y - y1),
         (x2 - x1) * (y2 - y1) >>

\* the call of f returned, for every cell enclosing its arguments, a value
\* within the corner values of the cell and equal to the bilinear formula
InterpolatesInCell(f, A, B, T) ==
  Returned(f) =>
    \A i \in 1 .. Len(A) - 1, j \in 1 .. Len(B) - 1 :
      Encloses(A, B, i, j, fnCall[2], fnCall[3])
        => /\ SetMin(Corners(T, i, j)) * fnOut[2] <= fnOut[1]
           /\ fnOut[1] <= SetMax(Corners(T, i, j)) * fnOut[2]
           /\ SameValue(fnOut,
                        StandardBilinear(A, B, T, i, j, fnCall[2], fnCall[3]))

C23_IdleInRange ==
  Returned("idlePositionFromSpeed")
    => /\ fnOut[1] \in 0 .. 1000
       /\ LET v == IF fnCall[2] < 0 THEN 0
                   ELSE IF fnCall[2] > 500 THEN 500 ELSE fnCall[2]
              p == lround(IdlePoly(IdleCurve, v))
          IN  fnOut[1] = (IF p < 0 THEN 0 ELSE IF p > 1000 THEN 1000 ELSE p)

\* a very large speed has returned 1000 where the cubic at 50 mph is 1800,
\* or a negative speed 0 where the cubic at 0 mph is -200
C23_Witness ==
  /\ Returned("idlePositionFromSpeed")
  /\ \/ fnCall[2] = 1000000000 /\ gIdleCurveA = 300 /\ fnOut = <<1000>>
     \/ fnCall[2] = -1 /\ gIdleCurveA = -200 /\ fnOut = <<0>>

\* ------------------------------------------------- calibration tables
\* the table T' is the table T with the cell (row, col), counted from 0, set
\* to value when that cell exists, and T otherwise
OnlyCell(T, Tn, row, col, value) ==
  /\ DOMAIN Tn = DOMAIN T
  /\ \A i \in DOMAIN T :
       /\ DOMAIN Tn[i] = DOMAIN T[i]
       /\ \A j \in DOMAIN T[i] :
            Tn[i][j] = IF i = row + 1 /\ j = col + 1 THEN value ELSE T[i][j]

\* everything but the three tables
TableFrame == <<calFrame, gMode, holdVars, stepperVars, fnVars, hallVars>>

\* C24: a setter changes the cell (row, col) of its table when that cell
\* exists and nothing otherwise; the other two tables, the axes, the idle
\* coefficients and the control mode stay as they are
C24_SetOneCell ==
  [][/\ \A r \in IndexArgs(POWER_TABLE_ROWS), c \in IndexArgs(POWER_TABLE_COLS),
           v \in ValueArgs :
          PowerTableSet(r, c, v)
            => /\ OnlyCell(gPowerTable, gPowerTable', r, c, v)
               /\ UNCHANGED <<gErgTable, gSimTable, TableFrame>>
     /\ \A r \in IndexArgs(ERG_TABLE_ROWS), c \in IndexArgs(ERG_TABLE_COLS),
           v \in ValueArgs :
          ErgTableSet(r, c, v)
            => /\ OnlyCell(gErgTable, gErgTable', r, c, v)
               /\ UNCHANGED <<gPowerTable, gSimTable, TableFrame>>
     /\ \A r \in IndexArgs(SIM_TABLE_ROWS), c \in IndexArgs(SIM_TABLE_COLS),
           v \in ValueArgs :
          SimTableSet(r, c, v)
            => /\ OnlyCell(gSimTable, gSimTable', r, c, v)
               /\ UNCHANGED <<gPowerTable, gErgTable, TableFrame>>]_vars

\* the last cell of the ERG table has been set, and nothing else
C24_Witness ==
  /\ calEdits = 1
  /\ gErgTable[ERG_TABLE_ROWS][ERG_TABLE_COLS] = 4000
  /\ gPowerTable = DEFAULT_POWER_TABLE /\ gSimTable = DEFAULT_SIM_TABLE
  /\ prefs = EmptyPrefs

\* the blob stored under a key has the size of a rows x cols table
Fits(blob, rows, cols) == blob.len = rows * cols * 8

\* C25: calibrationTablesLoad replaces a table by its stored blob exactly when
\* the blob has the size of the table, and leaves a table whose blob is
\* absent or of another size at its default values, each table by itself
C25_LoadBySize ==
  [][CalibrationTablesLoad =>
       /\ gPowerTable' = IF Fits(prefs.powerTbl, 7, 5) THEN prefs.powerTbl.data
                         ELSE DEFAULT_POWER_TABLE
       /\ gErgTable' = IF Fits(prefs.ergTbl, 7, 9) THEN prefs.ergTbl.data
                       ELSE DEFAULT_ERG_TABLE
       /\ gSimTable' = IF Fits(prefs.simTbl, 8, 7) THEN prefs.simTbl.data
                       ELSE DEFAULT_SIM_TABLE
       /\ calPc' = "run"]_vars

\* the load has replaced the power and the SIM table and has left the ERG
\* table, whose blob is one row short, at its defaults
C25_Witness ==
  /\ calPc = "run"
  /\ prefs.ergTbl.len = 6 * 9 * 8
  /\ gErgTable = DEFAULT_ERG_TABLE
  /\ gPowerTable = Stored(DEFAULT_POWER_TABLE)
  /\ gSimTable = Stored(DEFAULT_SIM_TABLE)

\* ------------------------------------------------------------ the RPM filter
\* distance of the filtered value from a raw value, in units of the last place
Dist(raw) == iabs32(gRpmFiltered - raw)

\* an update of the running filter with the raw value of the call before it,
\* after a time dt > 0
RepeatedUpdate ==
  /\ filterCalls' = filterCalls + 1
  /\ gLastRpmFilterMs # 0
  /\ filterRaw' = filterRaw
  /\ filterNowMs' > filterNowMs

HomeIterMs == 1 + (PULSE_HIGH_US + spsToIntervalUs(jogSpeedSps * FP) + HOME_LOOP_DELAY_MS * 1000) \div 1000

\* each phase of stepperHome stays within its iteration count or timeout
HomePhasesBounded ==
  /\ pc = "settle" => home_i <= HOME_SETTLE_ITERS
  /\ pc = "backoff"
       => Millis(nowUs) - home_t0 < HOME_BACKOFF_TIMEOUT_MS + HomeIterMs
  /\ pc = "seek"
       => Millis(nowUs) - home_t0 < HOME_SEEK_TIMEOUT_MS + HomeIterMs

\* C27: every call of stepperHome returns, each phase within its bound, and
\* gIsHoming is false when it returns
C27_HomeReturns ==
  /\ []HomePhasesBounded
  /\ [][pc # "loop" /\ pc' = "loop" => ~gIsHoming']_vars
  /\ (pc # "loop") ~> (pc = "loop")

\* stepperHome has returned with a failure: the switch, pressed at the start,
\* opened for good while the function ran
C27_Witness ==
  /\ pc = "loop" /\ ~gIsHoming
  /\ homePulses = <<"away", "toward">>
  /\ switchFlips = 1 /\ switchFault = "open"
  /\ physStepPos # PHYS_MIN_STEPS \/ carriage # HOME_FINAL_BACKOFF_STEPS

Pulsed == carriage' # carriage \/ physStepPos' # physStepPos

\* C29: in one stepperUpdate call the decision acts before the motion profile
\* and the step: a call that switches the motor off issues no step and moves
\* nothing, a call that switches it on with an error to work off issues its
\* first step at once, and a call that finds and leaves the motor on steps
\* exactly when the interval set by the ramp in this call has elapsed
C29_PhaseOrder ==
  [][StepperUpdate =>
       /\ gStepEn /\ ~gStepEn'
            => /\ ~Pulsed
               /\ UNCHANGED <<logStepPos, lastStepUs, stepIntervalUs,
                              rampCurSps, gLastDir, dirPin>>
       /\ ~gStepEn /\ gStepEn' /\ logStepTarget # logStepPos
            => carriage' # carriage /\ lastStepUs' = nowUs
       /\ gStepEn /\ gStepEn' /\ logStepTarget # logStepPos
            => (carriage' # carriage
                  <=> \/ lastStepUs = 0
                      \/ nowUs - lastStepUs >= stepIntervalUs')]_vars

\* the first stepperUpdate after boot with a target set has switched the
\* motor on and issued a step in the same call
C29_Witness ==
  /\ nowUs = BootUs /\ webReqs = 0 /\ ~gRehomeRequested
  /\ gStepEn /\ physStepPos = 1 /\ carriage = 1
  /\ lastStepUs = nowUs /\ rampLastUs = nowUs

\* ------------------------------------------------- ramp reset on enabling
\* the ramp speed stepperEnable(true) sets, line 182
GentleStart == Min(rampStartSps * FP, runSpeedSps)

\* stepperUpdate issues the first step since the motor was switched on
FirstStepSinceEnable ==
  /\ StepperUpdate
  /\ carriage' # carriage
  /\ ~gStepEn \/ ~pulsedSinceEnable

\* C30: stepperEnable(true), called by the /enable handler, by stepperHome or
\* by the decision of stepperUpdate, leaves the ramp at the gentle start speed
\* with no remembered direction, and the interval that paces the steps after
\* the first one is not shorter than that of the ramp speed: it comes from
\* the ramp started anew, not from the time before the motor was switched off
C30_GentleRestart ==
  [][/\ HandleEnable(TRUE) \/ HomeStart
          => rampCurSps' = GentleStart /\ gLastDir' = 0
     /\ StepperUpdate /\ ~gStepEn /\ gStepEn'
          => rampCurSps' = GentleStart /\ gDirJustChanged' = gDirJustChanged
     /\ FirstStepSinceEnable
          => stepIntervalUs' >= spsToIntervalUs(rampCurSps')]_vars

\* a step issued after the motor was switched on again, with the ramp at the
\* start speed of 800 steps/s and the interval of 1000 steps/s still in place
C30_Witness ==
  /\ pc = "loop" /\ gStepEn /\ lastStepUs = nowUs
  /\ rampCurSps = HOMING_SPEED_SPS * FP
  /\ stepIntervalUs = spsToIntervalUs(slowZoneSps * FP)

\* ------------------------------------------------------ the settle timer
\* requests to /enable that the settle-timer specification admits
MaxSettleReqs == 2

\* stepperUpdate, observed: settleSeenOut records whether a call made while
\* the settle timer was running found the error outside the off deadband
StepperUpdateSettle ==
  /\ pc = "loop"
  /\ Store(stepperUpdate(Load, switchFault, nowUs))
  /\ settleSeenOut' =
       IF gSettledSinceMs' = 0 \/ gSettledSinceMs = 0 THEN FALSE
       ELSE settleSeenOut
              \/ iabs32(logStepTarget - logStepPos) > STEP_OFF_DEADBAND_LOG
  /\ wokeErr' =
       IF ~gStepEn /\ gStepEn' /\ ~gIsHoming /\ ~gRehomeRequested
       THEN iabs32(logStepTarget - logStepPos)
       ELSE wokeErr
  /\ heldSinceMs' = IF gStepEn' THEN HeldSince ELSE -1
  /\ pulsedSinceEnable' =
       IF physStepPos' # physStepPos THEN TRUE
       ELSE IF ~gStepEn /\ gStepEn' THEN FALSE
       ELSE pulsedSinceEnable
  /\ UNCHANGED <<pc, home_i, home_t0, nowUs, envVars, webReqs, homePulses>>
  /\ UNCHANGED <<holdVars, fnVars, hallVars, calVars, filterVars, tripVars>>

\* GET /enable?on=..
HandleEnableSettle(on) ==
  /\ pc = "loop"
  /\ webReqs < MaxSettleReqs
  /\ webReqs' = webReqs + 1
  /\ Store(stepperEnable(Load, on, nowUs))
  /\ heldSinceMs' = IF on THEN heldSinceMs ELSE -1
  /\ pulsedSinceEnable' = IF on THEN FALSE ELSE pulsedSinceEnable
  /\ UNCHANGED <<pc, home_i, home_t0, nowUs, envVars, homePulses>>
  /\ UNCHANGED auxVars

NextSettle ==
  \/ TickLoop
  \/ TickStall
  \/ StepperUpdateSettle
  \/ \E pos \in GotoArgs : HandleGoto(pos)
  \/ \E on \in BOOLEAN : HandleEnableSettle(on)

SpecSettle == Init /\ [][NextSettle]_vars

\* stepperUpdate switches the motor off by its own decision
AutoDisable ==
  StepperUpdateSettle /\ gStepEn /\ ~gIsHoming /\ ~gRehomeRequested /\ ~gStepEn'

\* C31: stepperUpdate switches the motor off only if every stepperUpdate
\* since the settle timer was started has seen the error within the off
\* deadband and at least STEP_IDLE_OFF_MS have passed since that start; a
\* stepperUpdate of the enabled motor that sees the error outside the off
\* deadband resets the timer
C31_SettledThroughout ==
  [][/\ AutoDisable
          => /\ AbsErr <= STEP_OFF_DEADBAND_LOG
             /\ ~settleSeenOut
             /\ gSettledSinceMs # 0
             /\ Millis(nowUs) - gSettledSinceMs >= STEP_IDLE_OFF_MS
     /\ (StepperUpdateSettle /\ gStepEn /\ AbsErr > STEP_OFF_DEADBAND_LOG)
          => gSettledSinceMs' = 0]_vars

\* the settle timer has run for STEP_IDLE_OFF_MS although a stepperUpdate
\* since its start saw the error outside the off deadband
C31_Witness ==
  /\ pc = "loop" /\ gStepEn /\ ~gIsHoming /\ ~gRehomeRequested
  /\ settleSeenOut /\ gSettledSinceMs # 0
  /\ AbsErr <= STEP_OFF_DEADBAND_LOG
  /\ Millis(nowUs) - gSettledSinceMs >= STEP_IDLE_OFF_MS

\* --------------------------------------------------- waking the motor up
\* positions asked for around the on deadband
WakeArgs == {0, 11, 12, 13}

NextWake ==
  \/ TickStall
  \/ StepperUpdateSettle
  \/ \E pos \in WakeArgs : HandleGoto(pos)
  \/ \E on \in BOOLEAN : HandleEnableSettle(on)

SpecWake == Init /\ [][NextWake]_vars

\* stepperUpdate finds the motor disabled, no homing and no rehome pending
UpdateDisabled ==
  StepperUpdateSettle /\ ~gStepEn /\ ~gIsHoming /\ ~gRehomeRequested

\* the call leaves the motor disabled and issues no step
StaysOff ==
  ~gStepEn' /\ physStepPos' = physStepPos /\ logStepPos' = logStepPos

\* C32 as stated: the disabled motor is switched on when the error is above
\* STEP_ON_DEADBAND_LOG, and is left off, without a step, when it is not
C32_WakeAboveDeadband ==
  [][UpdateDisabled =>
       /\ AbsErr > STEP_ON_DEADBAND_LOG => gStepEn'
       /\ AbsErr <= STEP_ON_DEADBAND_LOG => StaysOff]_vars

\* C32: while the motor is disabled and neither homing nor a rehome is
\* pending, stepperUpdate switches it on when the error is at least
\* STEP_ON_DEADBAND_LOG, and leaves it off and issues no step when the error
\* is below
C32_WakeAtDeadband ==
  [][UpdateDisabled =>
       /\ AbsErr >= STEP_ON_DEADBAND_LOG => gStepEn'
       /\ AbsErr < STEP_ON_DEADBAND_LOG => StaysOff]_vars

\* the motor has been switched on by an error of exactly STEP_ON_DEADBAND_LOG
C32_Witness ==
  gStepEn /\ wokeErr = STEP_ON_DEADBAND_LOG /\ physStepPos # 0

\* C33: the logical error logStepTarget - logStepPos is zero exactly when
\* the physical error physStepTarget - physStepPos is zero, and
\* physStepTarget is logicalToSteps(logStepTarget); so where the motion
\* profile stops, the physical position is the physical target
C33_ErrorsAgree ==
  /\ physStepTarget = logicalToSteps(logStepTarget)
  /\ (logStepTarget - logStepPos = 0) <=> (physStepTarget - physStepPos = 0)

\* the motion profile has stepped and has stopped, the logical error being
\* zero, off the physical target
C33_Witness ==
  /\ pc = "loop" /\ pulsedSinceEnable
  /\ logStepTarget = logStepPos
  /\ physStepPos # physStepTarget

\* the ends of the travel
EdgePositions == {PHYS_MIN_STEPS, PHYS_MAX_STEPS}

\* a step taken from physical position p in direction d, due at once
EdgeStep(p, d) ==
  StepIfDue([Load EXCEPT !.physStepPos = p, !.lastStepUs = 0], d, nowUs)

\* C35: in every reachable state logStepPos is stepsToLogical(physStepPos),
\* after homing as well; and a step taken at an end of the travel,
\* clamped or not, leaves the two positions in that relation
C35_LogicalFollowsPhysical ==
  /\ logStepPos = stepsToLogical(physStepPos)
  /\ \A p \in EdgePositions, d \in {-1, 1} :
       LET r == EdgeStep(p, d)
       IN  r.logStepPos = stepsToLogical(r.physStepPos)

\* stepperHome has set the zero position and stepperUpdate has stepped since
C35_Witness ==
  /\ pc = "loop" /\ homePulses # <<>> /\ ~gIsHoming
  /\ physStepPos > PHYS_MIN_STEPS
  /\ logStepPos = stepsToLogical(physStepPos)

\* ------------------------------------------------- approaching the target
\* the control loop some time after homing, with the carriage at rest near
\* the target: physical positions and logical targets to start from, the
\* duration of a pass of the main loop, and the time the loop is followed
StepStarts == {0, 3, 100}
StepTargets == {0, 5, 12, 14}
PassUs == 1200
MaxStepTimeUs == 300000

StepInit ==
  /\ physStepPos \in StepStarts
  /\ logStepPos = stepsToLogical(physStepPos)
  /\ logStepTarget \in StepTargets
  /\ physStepTarget = logicalToSteps(logStepTarget)
  /\ gIsHoming = FALSE /\ gRehomeRequested = FALSE
  /\ stepSpeedSps = DEFAULT_STEP_SPEED_SPS * FP
  /\ stepIntervalUs = spsToIntervalUs(DEFAULT_STEP_SPEED_SPS * FP)
  /\ lastStepUs = 0
  /\ gLastDir = 0 /\ gDirJustChanged = FALSE
  /\ runSpeedSps = DEFAULT_STEP_SPEED_SPS * FP
  /\ rampLastUs = BootUs /\ rampCurSps = rampStartSps * FP
  /\ gStepEn \in BOOLEAN /\ gSettledSinceMs = 0
  /\ gLimitStable = 1 /\ gLimitRawLast = 1 /\ gLimitLastChangeMs = 0
  /\ dirPin = FALSE
  /\ pc = "loop" /\ home_i = 0 /\ home_t0 = 0
  /\ nowUs = BootUs
  /\ carriage = physStepPos + HOME_FINAL_BACKOFF_STEPS
  /\ switchFault = "none"
  /\ webReqs = 0 /\ loopTicks = 0 /\ microsWraps = 0
  /\ homePulses = <<>>
  /\ heldSinceMs = -1 /\ pulsedSinceEnable = FALSE
  /\ HoldInit /\ FnIdle /\ HallInit /\ MoreInit

\* one pass of the main loop: stepperUpdate, and the pass takes PassUs
LoopPassStep ==
  /\ pc = "loop"
  /\ nowUs <= MaxStepTimeUs
  /\ Store(stepperUpdate(Load, switchFault, nowUs))
  /\ nowUs' = nowUs + PassUs
  /\ heldSinceMs' = IF gStepEn' THEN HeldSince ELSE -1
  /\ pulsedSinceEnable' =
       IF physStepPos' # physStepPos THEN TRUE
       ELSE IF ~gStepEn /\ gStepEn' THEN FALSE
       ELSE pulsedSinceEnable
  /\ UNCHANGED <<pc, home_i, home_t0, envVars, webReqs, homePulses>>
  /\ UNCHANGED auxVars

\* the target stays as stepperSetTarget has left it
NextApproach == LoopPassStep

\* a pass of the main loop ends: what LoopPassStep does to the clock
PassEnds == pc = "loop" /\ nowUs <= MaxStepTimeUs /\ nowUs' = nowUs + PassUs

\* the main loop keeps running
SpecApproach == StepInit /\ [][NextApproach]_vars /\ WF_nowUs(PassEnds)

AtTarget == logStepPos = logStepTarget

\* the loop is still being followed for long enough to cover the distance
InTime == nowUs <= MaxStepTimeUs \div 2

Moving ==
  \/ AbsErr >= STEP_ON_DEADBAND_LOG
  \/ gStepEn /\ AbsErr > STEP_OFF_DEADBAND_LOG

PassSteps ==
  LoopPassStep /\ (physStepPos' # physStepPos \/ logStepPos' # logStepPos)

\* the sign of an error
Sgn(e) == IF e > 0 THEN 1 ELSE IF e < 0 THEN -1 ELSE 0

\* C37: a step issued by stepperUpdate never carries the logical position
\* past the target: across the step the size of the error does not grow, and
\* the error keeps its sign or becomes zero
C37_NoOvershoot ==
  [][PassSteps =>
       LET e == logStepTarget - logStepPos
           f == logStepTarget' - logStepPos'
       IN  /\ iabs32(f) <= iabs32(e)
           /\ f = 0 \/ Sgn(f) = Sgn(e)]_vars

\* the target has been reached from above: the steps have brought the
\* logical position down to it and the motor rests on the first physical
\* step that reads as the target
C37_Witness ==
  /\ pulsedSinceEnable /\ logStepTarget = 12 /\ logStepPos = 12
  /\ physStepPos = 90 /\ dirPin = FALSE

\* what the motion profile of stepperUpdate writes
ProfileState ==
  <<physStepPos, logStepPos, carriage, dirPin, gLastDir, gDirJustChanged,
    rampCurSps, rampLastUs, lastStepUs, stepIntervalUs>>

\* C38: stepperUpdate issues a pulse and changes a position only if the
\* motor is enabled after its enable/disable decision; a call that leaves
\* the motor disabled changes no position, direction or ramp state; and every
\* pulse of stepperHome is issued with the motor enabled
C38_StepsOnlyEnabled ==
  [][/\ (StepperUpdate /\ (physStepPos' # physStepPos
                            \/ logStepPos' # logStepPos
                            \/ carriage' # carriage)) => gStepEn'
     /\ (StepperUpdate /\ ~gStepEn') => ProfileState' = ProfileState
     /\ (HomeBackoffPulse \/ HomeSeekPulse \/ HomeComplete) => gStepEn]_vars

\* after stepperHome and some steps the motor is off with an error that does
\* not wake it up
C38_Witness ==
  /\ pc = "loop" /\ homePulses # <<>> /\ ~gStepEn /\ ~gRehomeRequested
  /\ physStepPos > 0
  /\ AbsErr > 0 /\ AbsErr < STEP_ON_DEADBAND_LOG

\* C39: when readRPM returns a rate other than zero, the interval it used was
\* written by an accepted edge that had an accepted edge before it, so the
\* interval of the first accepted edge is never turned into a rate
C39_RateFromTwoEdges ==
  [][(ReadReturn /\ rawRpm' # ZeroRpm) => rdDtEdge >= 2]_vars

\* readRPM has just returned a rate above zero from the interval of the
\* first accepted edge, before the 32-bit counter has wrapped
C39_Witness ==
  /\ rdAt = hallClock /\ rdPc = "idle" /\ rawRpm # ZeroRpm
  /\ rdDtEdge = 1 /\ rdLastEdge = 1
  /\ hallClock[1] = 0

\* C40: whenever the control loop runs, also after stepperHome, the rate the
\* motion profile targets inside the slow zone is not above the rate it
\* targets outside it
C40_SlowZoneNotFaster ==
  pc = "loop" => slowZoneSps * FP <= runSpeedSps

\* after stepperHome the motion profile has stepped inside the slow zone at
\* the slow-zone rate, above the run speed
C40_Witness ==
  /\ pc = "loop" /\ homePulses # <<>> /\ ~gIsHoming
  /\ physStepPos > PHYS_MIN_STEPS
  /\ rampCurSps = slowZoneSps * FP
  /\ runSpeedSps < slowZoneSps * FP

\* ------------------------------------------ lookups after edits of the tables
\* a table written to the store under its key
SavedBlob(T, rows, cols) == [len |-> SizeOfTable(rows, cols), data |-> T]

\* calibration.cpp lines 244-252: powerTableReset with powerTableSave
PowerTableReset ==
  /\ calPc = "run"
  /\ gPowerTable' = DEFAULT_POWER_TABLE
  /\ prefs' = [prefs EXCEPT
                 !.ns = TRUE,
                 !.powerTbl = SavedBlob(DEFAULT_POWER_TABLE, POWER_TABLE_ROWS,
                                        POWER_TABLE_COLS)]
  /\ UNCHANGED <<gErgTable, gSimTable, gIdleCurveA, gIdleCurveB, gIdleCurveC,
                 gIdleCurveD, gPowerSpeedAxis, gPowerPosAxis, gErgSpeedAxis,
                 gErgPowerAxis, gSimSpeedAxis, gSimGradeAxis, calPc, calEdits,
                 notCalVars>>

\* lines 281-289: ergTableReset with ergTableSave
ErgTableReset ==
  /\ calPc = "run"
  /\ gErgTable' = DEFAULT_ERG_TABLE
  /\ prefs' = [prefs EXCEPT
                 !.ns = TRUE,
                 !.ergTbl = SavedBlob(DEFAULT_ERG_TABLE, ERG_TABLE_ROWS,
                                      ERG_TABLE_COLS)]
  /\ UNCHANGED <<gPowerTable, gSimTable, gIdleCurveA, gIdleCurveB,
                 gIdleCurveC, gIdleCurveD, gPowerSpeedAxis, gPowerPosAxis,
                 gErgSpeedAxis, gErgPowerAxis, gSimSpeedAxis, gSimGradeAxis,
                 calPc, calEdits, notCalVars>>

\* lines 318-326: simTableReset with simTableSave
SimTableReset ==
  /\ calPc = "run"
  /\ gSimTable' = DEFAULT_SIM_TABLE
  /\ prefs' = [prefs EXCEPT
                 !.ns = TRUE,
                 !.simTbl = SavedBlob(DEFAULT_SIM_TABLE, SIM_TABLE_ROWS,
                                      SIM_TABLE_COLS)]
  /\ UNCHANGED <<gPowerTable, gErgTable, gIdleCurveA, gIdleCurveB,
                 gIdleCurveC, gIdleCurveD, gPowerSpeedAxis, gPowerPosAxis,
                 gErgSpeedAxis, gErgPowerAxis, gSimSpeedAxis, gSimGradeAxis,
                 calPc, calEdits, notCalVars>>

\* the first and the last node of an axis, as arguments of a lookup
EndNodes(A) == {A[1] * Q, A[Len(A)] * Q}

\* a lookup at a corner node of its grid is about to be called on a device
\* whose tables the web interface edits
InitEdited ==
  /\ Quiet /\ fnOut = <<>>
  /\ \/ \E x \in EndNodes(X), y \in EndNodes(Y) :
          fnCall = <<"powerFromSpeedPos", x, y>>
     \/ \E x \in EndNodes(Xw), y \in EndNodes(Yw) :
          fnCall = <<"stepFromPowerSpeed", x, y>>
     \/ \E x \in EndNodes(Xstep), y \in EndNodes(Ystep) :
          fnCall = <<"gradeToSteps", x, y>>

NextEdited ==
  \/ \E r \in IndexArgs(POWER_TABLE_ROWS), c \in IndexArgs(POWER_TABLE_COLS),
        v \in ValueArgs : PowerTableSet(r, c, v)
  \/ \E r \in IndexArgs(ERG_TABLE_ROWS), c \in IndexArgs(ERG_TABLE_COLS),
        v \in ValueArgs : ErgTableSet(r, c, v)
  \/ \E r \in IndexArgs(SIM_TABLE_ROWS), c \in IndexArgs(SIM_TABLE_COLS),
        v \in ValueArgs : SimTableSet(r, c, v)
  \/ PowerTableReset
  \/ ErgTableReset
  \/ SimTableReset
  \/ CallPowerFromSpeedPos
  \/ CallStepFromPowerSpeed
  \/ CallGradeToSteps

SpecEdited == InitEdited /\ [][NextEdited]_vars

\* the call returns the value that the table T, as the accessors have left
\* it, holds at every node (i, j) of the grid A x B that its arguments
\* coincide with
ReturnsCellOf(A, B, T) ==
  \A i \in 1 .. Len(A), j \in 1 .. Len(B) :
    (fnCall[2] = A[i] * Q /\ fnCall[3] = B[j] * Q)
      => fnOut'[1] = T[i][j] * fnOut'[2]

\* C34: the lookups read the tables that the accessors edit: queried at a
\* node, powerFromSpeedPos, stepFromPowerSpeed and gradeToSteps return the
\* cell of gPowerTable, gErgTable and gSimTable as the last powerTableSet,
\* ergTableSet, simTableSet or reset has left it
C34_LookupsReadEditedTables ==
  [][/\ CallPowerFromSpeedPos
          => ReturnsCellOf(gPowerSpeedAxis, gPowerPosAxis, gPowerTable)
     /\ CallStepFromPowerSpeed
          => ReturnsCellOf(gErgSpeedAxis, gErgPowerAxis, gErgTable)
     /\ CallGradeToSteps
          => ReturnsCellOf(gSimSpeedAxis, gSimGradeAxis, gSimTable)]_vars

\* the last cell of the power table was set to 4000 and not reset, and the
\* lookup at that node has returned the value of the static table
C34_Witness ==
  /\ Returned("powerFromSpeedPos")
  /\ fnCall[2] = 50 * Q /\ fnCall[3] = 1000 * Q
  /\ gPowerTable[POWER_TABLE_ROWS][POWER_TABLE_COLS] = 4000
  /\ prefs = EmptyPrefs
  /\ fnOut[2] # 0 /\ fnOut[1] = 3324 * fnOut[2]

====
